---- MODULE Spec2Model ----
(***************************************************************************)
(* Model of the Saltbox Docker Controller (saltyorg/sdc): the dependency   *)
(* graph (internal/graph), the parallel executor (internal/orchestrator),  *)
(* the job manager (internal/jobs) and the HTTP control plane              *)
(* (internal/api).                                                         *)
(***************************************************************************)
EXTENDS Integers, Sequences, FiniteSets, TLC

(***************************************************************************)
(* Bounds and name universes.                                              *)
(***************************************************************************)
\* Containers the daemon lists (all carry saltbox_managed=true).
Containers == {"a", "b", "c"}
\* A dependency name that no listed container has (yields a placeholder).
Missing == "m"
DepNames == Containers \cup {Missing}
\* The order in which the daemon lists the containers.
ListOrder == <<"a", "b", "c">>
\* Largest total number of depends_on entries over all containers.
MaxEdges == 3

VARIABLES
    labels,      \* the parsed labels of the listed containers (docker.ParseLabels)
    analysis,    \* result of the last graph operation applied to Build(labels)
    job,         \* the jobs.Job a worker runs through processJob
    xpc,         \* position of that worker in processJob / Start-/StopContainers
    ctxDone,     \* timeoutCtx of the call has expired
    graph,       \* the graph built by the call (name -> node)
    components,  \* the ComponentBatches the call obtained
    comp,        \* component goroutines: batch index, phase, compResult
    task,        \* node goroutines, one per batch entry <<component, batch, k>>
    batchChan,   \* per component goroutine: the batchChan of its current batch
    resultChan,  \* resultChan of the call
    result,      \* what the call returned: result buckets and error
    daemonCalls, \* calls issued to the daemon so far, as <<operation, container>>
    invoked,     \* name -> number of startContainer/stopContainer invocations
    received,    \* number of component results the call has collected
    isBlocked,   \* Server.isBlocked
    unblockCancel, \* Server.unblockCancel: 0 (nil) or the block request whose
                 \* auto-unblock goroutine it cancels
    timers,      \* auto-unblock goroutines, by the block request that started them
    reqs,        \* HTTP requests: route, position in the handler, response
    jobs,        \* Manager.jobs, the registry: job id -> *Job (a key of heap)
    heap,        \* the jobs.Job objects built by NewJob, by the request that
                 \* built them
    now,         \* time.Now(), in hours since the manager was built
    arrays,      \* the backing arrays of the jobs' []string fields, by address
    copies,      \* the *Job values Manager.Get and Manager.List have returned
    jobQueue,    \* Manager.jobQueue
    workers,     \* the worker goroutines: the jobs in their hands (busy), those
                 \* of them past SetResults (results) and how many workers have
                 \* returned (stopped); the others wait on jobQueue
    shutdown,    \* how far Manager.Shutdown has got
    cleanupLoop, \* the goroutine of Manager.cleanupLoop: "loop" or "exited"
    helper       \* the helper process: its place in runHelper, its request
                 \* under way, the job id it decoded, its signal handling

graphVars == <<labels, analysis>>
execVars == <<job, xpc, ctxDone, graph, components, comp, task, batchChan,
              resultChan, result, daemonCalls, invoked, received>>
jobVars == <<heap, now, arrays, copies>>
apiVars == <<isBlocked, unblockCancel, timers, reqs, jobs, jobQueue, workers, shutdown,
             cleanupLoop,
             heap, now, arrays, copies>>
vars == <<labels, analysis, job, xpc, ctxDone, graph, components, comp, task,
          batchChan, resultChan, result, daemonCalls, invoked, received,
          isBlocked, unblockCancel, timers, reqs, jobs, jobQueue, workers, shutdown,
          cleanupLoop,
          heap, now, arrays, copies, helper>>

(***************************************************************************)
(* Generic helpers.                                                        *)
(***************************************************************************)
Range(s) == {s[i] : i \in DOMAIN s}

Put(f, k, v) == [x \in DOMAIN f \cup {k} |-> IF x = k THEN v ELSE f[x]]

EmptyMap == [x \in {} |-> 0]

Reverse(s) == [i \in 1..Len(s) |-> s[Len(s) + 1 - i]]

RECURSIVE Perms(_)
\* All orders in which a Go map with key set S can be ranged over.
Perms(S) ==
    IF S = {} THEN {<<>>}
    ELSE UNION {{<<x>> \o p : p \in Perms(S \ {x})} : x \in S}

\* The order `order` restricted to the keys of one map.
Restrict(order, keys) == SelectSeq(order, LAMBDA x : x \in keys)

RECURSIVE Flatten(_)
Flatten(ss) == IF ss = <<>> THEN <<>> ELSE Head(ss) \o Flatten(Tail(ss))

(***************************************************************************)
(* internal/graph/types.go                                                 *)
(***************************************************************************)
NewNode(c) ==
    [Name |-> c.Name, IsRunning |-> c.Running, IsPlaceholder |-> FALSE,
     Parents |-> <<>>, Children |-> <<>>,
     StartupDelay |-> 0, WaitForHealthcheck |-> FALSE]

NewPlaceholderNode(name) ==
    [Name |-> name, IsRunning |-> FALSE, IsPlaceholder |-> TRUE,
     Parents |-> <<>>, Children |-> <<>>,
     StartupDelay |-> 0, WaitForHealthcheck |-> FALSE]

\* n.AddParent(p) on the node store g (n = p for a self-dependency).
AddParent(g, n, p) ==
    LET g1 == [g EXCEPT ![n].Parents = Append(@, p)]
    IN  [g1 EXCEPT ![p].Children = Append(@, n)]

HasParents(node) == Len(node.Parents) > 0

HasChildren(node) == Len(node.Children) > 0

(***************************************************************************)
(* internal/graph/builder.go                                               *)
(***************************************************************************)
RECURSIVE BuildNodes(_, _, _)
\* First pass of Build: one node per orchestrated container.
BuildNodes(containers, i, g) ==
    IF i > Len(containers) THEN g
    ELSE LET c == containers[i]
         IN  IF ~c.Managed
             THEN BuildNodes(containers, i + 1, g)
             ELSE BuildNodes(containers, i + 1,
                      Put(g, c.Name,
                          [NewNode(c) EXCEPT !.StartupDelay = c.Delay,
                                             !.WaitForHealthcheck = c.Healthchecks]))

RECURSIVE BuildDeps(_, _, _, _)
\* Inner loop of the second pass: the dependencies of one container.
BuildDeps(g, name, deps, j) ==
    IF j > Len(deps) THEN g
    ELSE LET depName == deps[j]
             g1 == IF depName \in DOMAIN g THEN g
                   ELSE Put(g, depName, NewPlaceholderNode(depName))
         IN  BuildDeps(AddParent(g1, name, depName), name, deps, j + 1)

RECURSIVE BuildEdges(_, _, _)
\* Second pass of Build.
BuildEdges(containers, i, g) ==
    IF i > Len(containers) THEN g
    ELSE LET c == containers[i]
         IN  IF c.Name \notin DOMAIN g
             THEN BuildEdges(containers, i + 1, g)
             ELSE BuildEdges(containers, i + 1, BuildDeps(g, c.Name, c.DependsOn, 1))

Build(containers) == BuildEdges(containers, 1, BuildNodes(containers, 1, EmptyMap))

\* GetRootNodes / GetLeafNodes, as sets (the slices follow map order).
GetRootNodes(g) == {n \in DOMAIN g : ~HasParents(g[n]) /\ ~g[n].IsPlaceholder}

GetLeafNodes(g) == {n \in DOMAIN g : ~HasChildren(g[n]) /\ ~g[n].IsPlaceholder}

RECURSIVE Dfs(_, _, _)
RECURSIVE DfsChildren(_, _, _, _)
RECURSIVE DfsChild(_, _, _, _)
RECURSIVE DfsReturn(_, _)
\* The closure dfs of HasCycles; st carries the nodes' visited/inStack flags
\* and the cycle slice.
Dfs(g, st, n) ==
    IF n \in st.inStack
    THEN [st EXCEPT !.found = TRUE, !.cycle = Append(@, n)]
    ELSE IF n \in st.visited
    THEN [st EXCEPT !.found = FALSE]
    ELSE DfsReturn(DfsChildren(g, [st EXCEPT !.visited = @ \cup {n},
                                             !.inStack = @ \cup {n}], n, 1), n)

\* dfs that leaves node.inStack set when it returns false.
DfsReturn_keepsInStack(r, n) ==
    IF r.found
    THEN [r EXCEPT !.cycle = Append(@, n)]
    ELSE r

\* The end of dfs, r being the state after the loop over the children.
DfsReturn(r, n) ==
    IF r.found
    THEN [r EXCEPT !.cycle = Append(@, n)]
    ELSE [r EXCEPT !.inStack = @ \ {n}]

DfsChildren(g, st, n, i) ==
    IF i > Len(g[n].Children) THEN [st EXCEPT !.found = FALSE]
    ELSE DfsChild(g, Dfs(g, st, g[n].Children[i]), n, i)

\* The loop over the children after dfs(child) has returned r.
DfsChild(g, r, n, i) == IF r.found THEN r ELSE DfsChildren(g, r, n, i + 1)

RECURSIVE HasCyclesLoop(_, _, _, _)
RECURSIVE HasCyclesRoot(_, _, _, _)
\* The loop of HasCycles over the nodes not yet visited.
HasCyclesLoop(g, order, i, st) ==
    IF i > Len(order) THEN [st EXCEPT !.found = FALSE, !.cycle = <<>>]
    ELSE IF order[i] \in st.visited
    THEN HasCyclesLoop(g, order, i + 1, st)
    ELSE HasCyclesRoot(g, order, i, Dfs(g, st, order[i]))

\* The loop after dfs(node) has returned r: the cycle slice is reversed and
\* returned, or the loop goes on.
HasCyclesRoot(g, order, i, r) ==
    IF r.found THEN [r EXCEPT !.cycle = Reverse(@)]
    ELSE HasCyclesLoop(g, order, i + 1, r)

\* HasCycles on the Graph whose Nodes map has the keys of `order` (in the
\* order the map is ranged over); flags are the nodes' visited/inStack fields
\* on entry.
HasCycles(g, order, flags) ==
    HasCyclesLoop(g, order, 1,
        [visited |-> flags.visited \ Range(order),
         inStack |-> flags.inStack \ Range(order),
         found |-> FALSE, cycle |-> <<>>])

\* The error Validate makes of what HasCycles returned.
ValidateError(h) ==
    [err |-> IF h.found THEN "circular dependency detected" ELSE "",
     cycle |-> h.cycle,
     flags |-> [visited |-> h.visited, inStack |-> h.inStack]]

\* Validate: nil, or the circular-dependency error carrying the witness.
Validate(g, order, flags) == ValidateError(HasCycles(g, order, flags))

(***************************************************************************)
(* internal/graph/sort.go                                                  *)
(***************************************************************************)
RECURSIVE Visit(_, _, _)
RECURSIVE VisitParents(_, _, _, _)
RECURSIVE VisitAppend(_, _, _)
\* The closure visit of TopologicalSort; st carries the visited flags and the
\* sorted slice.  It never returns an error.
\* The visited test dropped: a node is emitted once per path that reaches it.
Visit_noVisitedTest(g, st, n) ==
    VisitAppend(g, VisitParents(g, [st EXCEPT !.visited = @ \cup {n}], n, 1), n)

Visit(g, st, n) ==
    IF n \in st.visited THEN st
    ELSE VisitAppend(g, VisitParents(g, [st EXCEPT !.visited = @ \cup {n}], n, 1), n)

\* The end of visit: a node that is not a placeholder is appended to sorted.
VisitAppend(g, st, n) ==
    IF ~g[n].IsPlaceholder
    THEN [st EXCEPT !.sorted = Append(@, n)]
    ELSE st

VisitParents(g, st, n, i) ==
    IF i > Len(g[n].Parents) THEN st
    ELSE VisitParents(g, Visit(g, st, g[n].Parents[i]), n, i + 1)

RECURSIVE SortLoop(_, _, _, _)
SortLoop(g, order, i, st) ==
    IF i > Len(order) THEN st
    ELSE IF order[i] \notin st.visited /\ ~g[order[i]].IsPlaceholder
    THEN SortLoop(g, order, i + 1, Visit(g, st, order[i]))
    ELSE SortLoop(g, order, i + 1, st)

RECURSIVE SortValidated(_, _, _)
RECURSIVE SortedContainers(_, _)
\* TopologicalSort on the Graph whose Nodes map is ranged over in `order`.
\* Validate's loop and the sort loop range over the same map; when Validate
\* fails the sort loop is not reached and when it succeeds its own order has
\* no effect, so one order stands for both.
TopologicalSort(g, order, flags) == SortValidated(g, order, Validate(g, order, flags))

\* TopologicalSort after Validate has returned v.
SortValidated(g, order, v) ==
    IF v.err # ""
    THEN [err |-> v.err, cycle |-> v.cycle, StartupOrder |-> <<>>,
          ShutdownOrder |-> <<>>, flags |-> v.flags]
    ELSE SortedContainers(SortLoop(g, order, 1,
             [visited |-> v.flags.visited \ Range(order), sorted |-> <<>>]),
             v.flags.inStack)

\* What TopologicalSort returns once its loop has ended in state st.
SortedContainers(st, inStack) ==
    IF Len(st.sorted) = 0
    THEN [err |-> "no containers to sort", cycle |-> <<>>, StartupOrder |-> <<>>,
          ShutdownOrder |-> <<>>,
          flags |-> [visited |-> st.visited, inStack |-> inStack]]
    ELSE [err |-> "", cycle |-> <<>>, StartupOrder |-> st.sorted,
          ShutdownOrder |-> Reverse(st.sorted),
          flags |-> [visited |-> st.visited, inStack |-> inStack]]

\* The comparison dropped: the last value read wins.
Max_lastWins(a, b) == b

Max(a, b) == IF a > b THEN a ELSE b

RECURSIVE calculateDepth(_, _)
RECURSIVE MaxParentDepth(_, _, _, _)
\* The closure calculateDepth of GetStartupBatches (the depths map only
\* memoises it).
calculateDepth(g, n) ==
    IF ~HasParents(g[n]) THEN 0
    ELSE MaxParentDepth(g, n, 1, -1) + 1

\* A placeholder parent counted as a parent of depth 0.
MaxParentDepth_countPlaceholders(g, n, i, maxParentDepth) ==
    IF i > Len(g[n].Parents) THEN maxParentDepth
    ELSE LET parent == g[n].Parents[i]
         IN  MaxParentDepth(g, n, i + 1,
                 Max(maxParentDepth, IF g[parent].IsPlaceholder THEN 0
                                     ELSE calculateDepth(g, parent)))

MaxParentDepth(g, n, i, maxParentDepth) ==
    IF i > Len(g[n].Parents) THEN maxParentDepth
    ELSE LET parent == g[n].Parents[i]
         IN  IF g[parent].IsPlaceholder
             THEN MaxParentDepth(g, n, i + 1, maxParentDepth)
             ELSE MaxParentDepth(g, n, i + 1,
                      Max(maxParentDepth, calculateDepth(g, parent)))

RECURSIVE MaxDepthOf(_, _, _, _)
MaxDepthOf(g, sorted, i, maxDepth) ==
    IF i > Len(sorted) THEN maxDepth
    ELSE MaxDepthOf(g, sorted, i + 1, Max(maxDepth, calculateDepth(g, sorted[i])))

\* Grouping of the sorted nodes by depth into maxDepth+1 batches.
GroupByDepth(g, sorted) ==
    [d \in 1..(MaxDepthOf(g, sorted, 1, 0) + 1) |->
        SelectSeq(sorted, LAMBDA n : calculateDepth(g, n) = d - 1)]

\* GetStartupBatches after TopologicalSort has returned sorted.
BatchesOfSorted(g, sorted) ==
    [err |-> sorted.err, cycle |-> sorted.cycle, flags |-> sorted.flags,
     batches |-> IF sorted.err # "" THEN <<>>
                 ELSE GroupByDepth(g, sorted.StartupOrder)]

GetStartupBatches(g, order, flags) ==
    BatchesOfSorted(g, TopologicalSort(g, order, flags))

GetShutdownBatches(g, order, flags) ==
    LET startupBatches == GetStartupBatches(g, order, flags)
    IN  [startupBatches EXCEPT !.batches = Reverse(@)]

(***************************************************************************)
(* internal/graph/components.go                                            *)
(***************************************************************************)
RECURSIVE findComponentLoop(_, _, _, _)
findComponentLoop(g, stack, visited, component) ==
    IF Len(stack) = 0 THEN [component |-> component, visited |-> visited]
    ELSE LET node == stack[Len(stack)]
             rest == SubSeq(stack, 1, Len(stack) - 1)
         IN  IF node \in visited \/ g[node].IsPlaceholder
             THEN findComponentLoop(g, rest, visited, component)
             ELSE LET v1 == visited \cup {node}
                      push(x) == x \notin v1 /\ ~g[x].IsPlaceholder
                  IN  findComponentLoop(g,
                          rest \o SelectSeq(g[node].Parents, push)
                               \o SelectSeq(g[node].Children, push),
                          v1, Append(component, node))

\* Only the start node is taken, its neighbours are not followed.
findComponent_startOnly(g, start, visited) ==
    [component |-> <<start>>, visited |-> visited \cup {start}]

findComponent(g, start, visited) == findComponentLoop(g, <<start>>, visited, <<>>)

\* The subgraph built from a component shares the node objects; only its
\* Nodes map (ranged over in `suborder`) is new.
getBatchesForComponent(g, component, suborder, flags) ==
    GetStartupBatches(g, Restrict(suborder, Range(component)), flags)

RECURSIVE ComponentsLoop(_, _, _, _, _)
RECURSIVE ComponentFound(_, _, _, _, _, _)
RECURSIVE ComponentBatched(_, _, _, _, _, _)
\* The loop of GetConnectedComponents over the nodes.
ComponentsLoop(g, order, suborder, i, st) ==
    IF i > Len(order) \/ st.err # "" THEN st
    ELSE IF order[i] \in st.flags.visited \/ g[order[i]].IsPlaceholder
    THEN ComponentsLoop(g, order, suborder, i + 1, st)
    ELSE ComponentFound(g, order, suborder, i, st,
             findComponent(g, order[i], st.flags.visited))

\* The loop body after findComponent has returned fc.
ComponentFound(g, order, suborder, i, st, fc) ==
    IF Len(fc.component) = 0
    THEN ComponentsLoop(g, order, suborder, i + 1,
             [st EXCEPT !.flags.visited = fc.visited])
    ELSE ComponentBatched(g, order, suborder, i, st,
             getBatchesForComponent(g, fc.component, suborder,
                 [st.flags EXCEPT !.visited = fc.visited]))

\* A component whose batches cannot be computed is left out and the loop
\* goes on.
ComponentBatched_skipFailed(g, order, suborder, i, st, b) ==
    ComponentsLoop(g, order, suborder, i + 1,
        [st EXCEPT !.flags = [b.flags EXCEPT !.inStack = {}],
                   !.components = IF b.err # "" THEN @ ELSE Append(@, b.batches)])

\* The loop body after getBatchesForComponent has returned b: its error is
\* returned, or the component is appended.
ComponentBatched(g, order, suborder, i, st, b) ==
    IF b.err # ""
    THEN [st EXCEPT !.err = b.err, !.cycle = b.cycle,
                    !.flags = b.flags, !.components = <<>>]
    ELSE ComponentsLoop(g, order, suborder, i + 1,
             [st EXCEPT !.flags = b.flags,
                        !.components = Append(@, b.batches)])

\* GetConnectedComponents: g.Nodes is ranged over in `order`, each
\* component's subgraph map in `suborder` (restricted to its keys).
GetConnectedComponents(g, order, suborder, flags) ==
    ComponentsLoop(g, order, suborder, 1,
        [err |-> "", cycle |-> <<>>, components |-> <<>>,
         flags |-> [flags EXCEPT !.visited = @ \ Range(order)]])

\* The batches of each component left in startup order.
GetConnectedComponentsForShutdown_notReversed(g, order, suborder, flags) ==
    GetConnectedComponents(g, order, suborder, flags)

GetConnectedComponentsForShutdown(g, order, suborder, flags) ==
    LET startup == GetConnectedComponents(g, order, suborder, flags)
    IN  [startup EXCEPT
            !.components = [i \in 1..Len(@) |-> Reverse(@[i])]]

(***************************************************************************)
(* Inputs of the graph operations: what the daemon lists.                  *)
(***************************************************************************)
RECURSIVE LabelSets(_)
\* Every assignment of depends_on lists with at most k entries in total.
LabelSets(k) ==
    IF k = 0 THEN {[c \in Containers |-> <<>>]}
    ELSE LET prev == LabelSets(k - 1)
         IN  prev \cup {[f EXCEPT ![c] = Append(@, d)] :
                           f \in prev, c \in Containers, d \in DepNames}

\* The container summaries returned by ListManagedContainers, with the
\* labels parsed: the containers in ListOrder, and, when optOut holds, the
\* container Missing with saltbox_controller=false.
ContainerList(in) ==
    [i \in 1..Len(ListOrder) |->
        [Name |-> ListOrder[i], Managed |-> TRUE, DependsOn |-> in.deps[ListOrder[i]],
         Delay |-> in.delay[ListOrder[i]],
         Healthchecks |-> in.healthchecks[ListOrder[i]], Running |-> FALSE]]
    \o (IF in.optOut
        THEN <<[Name |-> Missing, Managed |-> FALSE, DependsOn |-> <<>>,
                Delay |-> 0, Healthchecks |-> FALSE, Running |-> FALSE]>>
        ELSE <<>>)

NoFlags == [visited |-> {}, inStack |-> {}]

None == [op |-> "none"]

\* Label sets with the given depends_on lists and no delay or health gate.
PlainLabels(d, o) ==
    [deps |-> d, optOut |-> o,
     delay |-> [c \in Containers |-> 0],
     healthchecks |-> [c \in Containers |-> FALSE]]

\* No server and no manager: no request, no registry, no worker.
ApiIdle ==
    /\ isBlocked = FALSE
    /\ unblockCancel = 0
    /\ timers = EmptyMap
    /\ reqs = <<>>
    /\ jobs = EmptyMap
    /\ jobQueue = <<>>
    /\ workers = [busy |-> {}, results |-> {}, stopped |-> 0]
    /\ shutdown = "none"
    /\ cleanupLoop = "loop"
    /\ helper = [pc |-> "none"]
    /\ heap = EmptyMap
    /\ now = 0
    /\ arrays = <<>>
    /\ copies = <<>>

\* No job is being run.
ExecIdle ==
    /\ job = None
    /\ xpc = "none"
    /\ ctxDone = FALSE
    /\ graph = EmptyMap
    /\ components = <<>>
    /\ comp = <<>>
    /\ task = EmptyMap
    /\ batchChan = <<>>
    /\ resultChan = <<>>
    /\ result = None
    /\ daemonCalls = {}
    /\ invoked = EmptyMap
    /\ received = 0

GraphInit ==
    /\ labels \in {PlainLabels(d, o) : d \in LabelSets(MaxEdges), o \in BOOLEAN}
    /\ analysis = None
    /\ ExecIdle
    /\ ApiIdle

\* The graph the operations are applied to.
G == Build(ContainerList(labels))

\* Orders in which g.Nodes can be ranged over.  Where a loop skips
\* placeholders their position is immaterial and they are put last.
MapOrders(g) == Perms(DOMAIN g)

RealOrders(g) ==
    LET ph == {n \in DOMAIN g : g[n].IsPlaceholder}
    IN  {p \o q : p \in Perms(DOMAIN g \ ph), q \in {CHOOSE x \in Perms(ph) : TRUE}}

CallGetConnectedComponents ==
    /\ xpc \in {"none", "queued"}
    /\ analysis = None
    /\ \E order \in RealOrders(G), suborder \in Perms(Containers) :
          analysis' = [op |-> "GetConnectedComponents",
                       res |-> GetConnectedComponents(G, order, suborder, NoFlags)]
    /\ UNCHANGED <<helper, labels, execVars, apiVars>>

\* A later call on the same graph, its nodes carrying the flags the first
\* call left behind.
CallGetConnectedComponentsForShutdown ==
    /\ xpc \in {"none", "queued"}
    /\ analysis.op \in {"none", "GetConnectedComponents"}
    /\ \E order \in RealOrders(G), suborder \in Perms(Containers) :
          LET flags == IF analysis = None THEN NoFlags ELSE analysis.res.flags
          IN  analysis' = [op |-> "GetConnectedComponentsForShutdown",
                           startup |-> IF analysis = None THEN None ELSE analysis.res,
                           res |-> GetConnectedComponentsForShutdown(G, order, suborder, flags)]
    /\ UNCHANGED <<helper, labels, execVars, apiVars>>

CallTopologicalSort ==
    /\ xpc \in {"none", "queued"}
    /\ analysis = None
    /\ \E order \in MapOrders(G) :
          analysis' = [op |-> "TopologicalSort", res |-> TopologicalSort(G, order, NoFlags)]
    /\ UNCHANGED <<helper, labels, execVars, apiVars>>

CallGetStartupBatches ==
    /\ xpc \in {"none", "queued"}
    /\ analysis = None
    /\ \E order \in MapOrders(G) :
          analysis' = [op |-> "GetStartupBatches", res |-> GetStartupBatches(G, order, NoFlags)]
    /\ UNCHANGED <<helper, labels, execVars, apiVars>>

CallGetShutdownBatches ==
    /\ xpc \in {"none", "queued"}
    /\ analysis = None
    /\ \E order \in MapOrders(G) :
          analysis' = [op |-> "GetShutdownBatches", res |-> GetShutdownBatches(G, order, NoFlags)]
    /\ UNCHANGED <<helper, labels, execVars, apiVars>>

CallGetRootNodes ==
    /\ xpc \in {"none", "queued"}
    /\ analysis = None
    /\ analysis' = [op |-> "GetRootNodes", res |-> GetRootNodes(G)]
    /\ UNCHANGED <<helper, labels, execVars, apiVars>>

CallGetLeafNodes ==
    /\ xpc \in {"none", "queued"}
    /\ analysis = None
    /\ analysis' = [op |-> "GetLeafNodes", res |-> GetLeafNodes(G)]
    /\ UNCHANGED <<helper, labels, execVars, apiVars>>

CallHasCycles ==
    /\ xpc \in {"none", "queued"}
    /\ analysis = None
    /\ \E order \in MapOrders(G) :
          analysis' = [op |-> "HasCycles", res |-> HasCycles(G, order, NoFlags)]
    /\ UNCHANGED <<helper, labels, execVars, apiVars>>

GraphNext ==
    \/ CallGetConnectedComponents
    \/ CallGetConnectedComponentsForShutdown
    \/ CallTopologicalSort
    \/ CallGetStartupBatches
    \/ CallGetShutdownBatches
    \/ CallGetRootNodes
    \/ CallGetLeafNodes
    \/ CallHasCycles

SpecGraph == GraphInit /\ [][GraphNext]_vars

(***************************************************************************)
(* internal/jobs/types.go, internal/jobs/manager.go: one job run by a      *)
(* worker.                                                                 *)
(***************************************************************************)
NoError == [msg |-> "", cause |-> "", cycle |-> <<>>]

NewJob(jobType, ignore) ==
    [op |-> "job", Type |-> jobType, Status |-> "pending", Ignore |-> ignore,
     Started |-> <<>>, Stopped |-> <<>>, Skipped |-> <<>>, Failed |-> <<>>,
     Error |-> NoError]

\* processJob, line 187: job.SetStatus(JobStatusRunning).
JobSetRunning ==
    /\ xpc = "queued"
    /\ analysis = None
    /\ job' = [job EXCEPT !.Status = "running"]
    /\ xpc' = "called"
    /\ UNCHANGED <<ctxDone, graph, components, comp, task, batchChan, resultChan,
                   result, daemonCalls, invoked, received>>
    /\ UNCHANGED <<helper, graphVars, apiVars>>

\* processStartJob/processStopJob: the executor returned an error.
JobSetError ==
    /\ xpc = "returned"
    /\ result.err # NoError
    /\ job' = [job EXCEPT !.Error = result.err, !.Status = "failed"]
    /\ xpc' = "done"
    /\ UNCHANGED <<ctxDone, graph, components, comp, task, batchChan, resultChan,
                   result, daemonCalls, invoked, received>>
    /\ UNCHANGED <<helper, graphVars, apiVars>>

\* processStartJob/processStopJob: job.SetResults(...) with the non-nil
\* slices of the result.
JobSetResults ==
    /\ xpc = "returned"
    /\ result.err = NoError
    /\ job' = IF job.Type = "start"
              THEN [job EXCEPT !.Started = result.res.acted,
                               !.Skipped = result.res.skipped,
                               !.Failed = result.res.failed]
              ELSE [job EXCEPT !.Stopped = result.res.acted,
                               !.Skipped = result.res.skipped,
                               !.Failed = result.res.failed]
    /\ xpc' = "results"
    /\ UNCHANGED <<ctxDone, graph, components, comp, task, batchChan, resultChan,
                   result, daemonCalls, invoked, received>>
    /\ UNCHANGED <<helper, graphVars, apiVars>>

\* processJob, the default case of the switch: SetError("unknown job type").
JobUnknownType ==
    /\ xpc = "called"
    /\ job.Type \notin {"start", "stop"}
    /\ job' = [job EXCEPT !.Error = [msg |-> "unknown job type", cause |-> job.Type,
                                     cycle |-> <<>>],
                          !.Status = "failed"]
    /\ xpc' = "done"
    /\ UNCHANGED <<ctxDone, graph, components, comp, task, batchChan, resultChan,
                   result, daemonCalls, invoked, received>>
    /\ UNCHANGED <<helper, graphVars, apiVars>>

\* A job with a non-empty failed list is set Failed instead of Completed.
JobSetCompleted_failedOnFailures ==
    /\ xpc = "results"
    /\ job' = IF job.Failed = <<>>
              THEN [job EXCEPT !.Status = "completed"]
              ELSE [job EXCEPT !.Status = "failed",
                               !.Error = [msg |-> "containers failed", cause |-> "",
                                          cycle |-> <<>>]]
    /\ xpc' = "done"
    /\ UNCHANGED <<ctxDone, graph, components, comp, task, batchChan, resultChan,
                   result, daemonCalls, invoked, received>>
    /\ UNCHANGED <<helper, graphVars, apiVars>>

\* processStartJob/processStopJob: job.SetStatus(JobStatusCompleted).
JobSetCompleted ==
    /\ xpc = "results"
    /\ job' = [job EXCEPT !.Status = "completed"]
    /\ xpc' = "done"
    /\ UNCHANGED <<ctxDone, graph, components, comp, task, batchChan, resultChan,
                   result, daemonCalls, invoked, received>>
    /\ UNCHANGED <<helper, graphVars, apiVars>>

(***************************************************************************)
(* internal/orchestrator/orchestrator.go                                   *)
(***************************************************************************)
EmptyBuckets == [acted |-> <<>>, skipped |-> <<>>, failed |-> <<>>]

\* One name in one bucket: the batchResult a node goroutine sends.
OneBucket(bucket, name) == [EmptyBuckets EXCEPT ![bucket] = <<name>>]

\* The failed names appended to the started (stopped) slice as well.
AppendBuckets_failedTwice(x, y) ==
    [acted |-> x.acted \o y.acted \o y.failed, skipped |-> x.skipped \o y.skipped,
     failed |-> x.failed \o y.failed]

\* append(x.started, y.started...) and so on, for all three slices.
AppendBuckets(x, y) ==
    [acted |-> x.acted \o y.acted, skipped |-> x.skipped \o y.skipped,
     failed |-> x.failed \o y.failed]

TaskIds(cs) ==
    UNION {UNION {{<<c, b, k>> : k \in DOMAIN cs[c][b]} : b \in DOMAIN cs[c]} :
              c \in DOMAIN cs}

NodeOf(t) == components[t[1]][t[2]][t[3]]

\* ignoreMap[name]
ignoreMap(name) == name \in Range(job.Ignore)

\* The verb of the call: "start" in StartContainers, "stop" in StopContainers.
Verb == job.Type

\* The timer of timeoutCtx fires.
Timeout ==
    /\ xpc \in {"called", "collect"}
    /\ ~ctxDone
    /\ ctxDone' = TRUE
    /\ UNCHANGED <<job, xpc, graph, components, comp, task, batchChan, resultChan,
                   result, daemonCalls, invoked, received>>
    /\ UNCHANGED <<helper, graphVars, apiVars>>

\* The executor after the component analysis has returned cc: its error is
\* wrapped and returned, or the channels are made and one goroutine per
\* component is spawned.
ExecComponents(g, cc) ==
    /\ graph' = g
    /\ daemonCalls' = {<<"inspect", n>> : n \in {x \in DOMAIN g : ~g[x].IsPlaceholder}}
    /\ invoked' = [n \in DOMAIN g |-> 0]
    /\ IF cc.err # ""
       THEN /\ result' = [op |-> "result", res |-> EmptyBuckets, err |->
                   [msg |-> "failed to identify connected components",
                    cause |-> cc.err, cycle |-> cc.cycle]]
            /\ xpc' = "returned"
            /\ UNCHANGED <<components, comp, task, batchChan>>
       ELSE /\ result' = [op |-> "result", res |-> EmptyBuckets, err |-> NoError]
            /\ components' = cc.components
            /\ comp' = [c \in DOMAIN cc.components |->
                           [batchIdx |-> 1, phase |-> "spawn", collected |-> 0,
                            compResult |-> EmptyBuckets]]
            /\ task' = [t \in TaskIds(cc.components) |->
                           [pc |-> "idle", gateIdx |-> 0]]
            /\ batchChan' = [c \in DOMAIN cc.components |-> <<>>]
            /\ xpc' = "collect"

\* StartContainers/StopContainers up to and including the loop that spawns
\* the component goroutines: list, Build, GetConnectedComponents[ForShutdown].
ExecBegin ==
    /\ xpc = "called"
    /\ job.Type \in {"start", "stop"}
    /\ \/ /\ result' = [op |-> "result", res |-> EmptyBuckets, err |->
                          [msg |-> "failed to list containers", cause |-> "", cycle |-> <<>>]]
          /\ xpc' = "returned"
          /\ UNCHANGED <<graph, components, comp, task, batchChan, daemonCalls, invoked>>
       \/ \E order \in RealOrders(G), suborder \in Perms(Containers) :
             ExecComponents(G,
                 IF Verb = "start"
                 THEN GetConnectedComponents(G, order, suborder, NoFlags)
                 ELSE GetConnectedComponentsForShutdown(G, order, suborder, NoFlags))
    /\ UNCHANGED <<job, ctxDone, resultChan, received>>
    /\ UNCHANGED <<helper, graphVars, apiVars>>

\* A barrier across components: a batch is spawned only when no other
\* component is behind.
CompSpawn_globalBarrier(c) ==
    /\ xpc = "collect"
    /\ comp[c].phase = "spawn"
    /\ comp[c].batchIdx <= Len(components[c])
    /\ \A d \in DOMAIN comp : comp[d].phase = "exited" \/ comp[d].batchIdx >= comp[c].batchIdx
    /\ LET b == comp[c].batchIdx
           batch == components[c][b]
       IN  /\ task' = [t \in DOMAIN task |->
                         IF t[1] = c /\ t[2] = b
                         THEN [task[t] EXCEPT !.pc = "spawned"] ELSE task[t]]
           /\ batchChan' = [batchChan EXCEPT ![c] = <<>>]
           /\ comp' = IF Len(batch) = 0
                      THEN [comp EXCEPT ![c].batchIdx = b + 1]
                      ELSE [comp EXCEPT ![c].phase = "collect", ![c].collected = 0]
    /\ UNCHANGED <<job, xpc, ctxDone, graph, components, resultChan, result,
                   daemonCalls, invoked, received>>
    /\ UNCHANGED <<helper, graphVars, apiVars>>

\* A component goroutine makes batchChan and spawns the goroutines of its
\* current batch.
CompSpawn(c) ==
    /\ xpc = "collect"
    /\ comp[c].phase = "spawn"
    /\ comp[c].batchIdx <= Len(components[c])
    /\ LET b == comp[c].batchIdx
           batch == components[c][b]
       IN  /\ task' = [t \in DOMAIN task |->
                         IF t[1] = c /\ t[2] = b
                         THEN [task[t] EXCEPT !.pc = "spawned"] ELSE task[t]]
           /\ batchChan' = [batchChan EXCEPT ![c] = <<>>]
           /\ comp' = IF Len(batch) = 0
                      THEN [comp EXCEPT ![c].batchIdx = b + 1]
                      ELSE [comp EXCEPT ![c].phase = "collect", ![c].collected = 0]
    /\ UNCHANGED <<job, xpc, ctxDone, graph, components, resultChan, result,
                   daemonCalls, invoked, received>>
    /\ UNCHANGED <<helper, graphVars, apiVars>>

\* The first batchResult received ends the wait for the batch.
CompCollect_firstOnly(c) ==
    /\ xpc = "collect"
    /\ comp[c].phase = "collect"
    /\ Len(batchChan[c]) > 0
    /\ comp' = [comp EXCEPT
                   ![c].compResult = AppendBuckets(@, Head(batchChan[c])),
                   ![c].collected = @ + 1,
                   ![c].phase = "spawn",
                   ![c].batchIdx = @ + 1]
    /\ batchChan' = [batchChan EXCEPT ![c] = Tail(@)]
    /\ UNCHANGED <<job, xpc, ctxDone, graph, components, task, resultChan, result,
                   daemonCalls, invoked, received>>
    /\ UNCHANGED <<helper, graphVars, apiVars>>

\* A component goroutine that gives up its later batches when a node of the
\* current batch has failed.
CompCollect_stopsOnFailure(c) ==
    /\ xpc = "collect"
    /\ comp[c].phase = "collect"
    /\ Len(batchChan[c]) > 0
    /\ LET br == Head(batchChan[c])
           n == comp[c].collected + 1
           batch == components[c][comp[c].batchIdx]
       IN  comp' = [comp EXCEPT
                      ![c].compResult = AppendBuckets(@, br),
                      ![c].collected = n,
                      ![c].phase = IF n = Len(batch) THEN "spawn" ELSE "collect",
                      ![c].batchIdx = IF n # Len(batch) THEN @
                                      ELSE IF br.failed # <<>>
                                      THEN Len(components[c]) + 1
                                      ELSE @ + 1]
    /\ batchChan' = [batchChan EXCEPT ![c] = Tail(@)]
    /\ UNCHANGED <<job, xpc, ctxDone, graph, components, task, resultChan, result,
                   daemonCalls, invoked, received>>
    /\ UNCHANGED <<helper, graphVars, apiVars>>

\* A component goroutine receives one batchResult; after len(batch) of them
\* it goes on to the next batch.
CompCollect(c) ==
    /\ xpc = "collect"
    /\ comp[c].phase = "collect"
    /\ Len(batchChan[c]) > 0
    /\ LET br == Head(batchChan[c])
           n == comp[c].collected + 1
           batch == components[c][comp[c].batchIdx]
       IN  comp' = [comp EXCEPT
                      ![c].compResult = AppendBuckets(@, br),
                      ![c].collected = n,
                      ![c].phase = IF n = Len(batch) THEN "spawn" ELSE "collect",
                      ![c].batchIdx = IF n = Len(batch) THEN @ + 1 ELSE @]
    /\ batchChan' = [batchChan EXCEPT ![c] = Tail(@)]
    /\ UNCHANGED <<job, xpc, ctxDone, graph, components, task, resultChan, result,
                   daemonCalls, invoked, received>>
    /\ UNCHANGED <<helper, graphVars, apiVars>>

\* A component goroutine has run all its batches and sends compResult.
CompSend(c) ==
    /\ xpc = "collect"
    /\ comp[c].phase = "spawn"
    /\ comp[c].batchIdx > Len(components[c])
    /\ resultChan' = Append(resultChan, comp[c].compResult)
    /\ comp' = [comp EXCEPT ![c].phase = "exited"]
    /\ UNCHANGED <<job, xpc, ctxDone, graph, components, task, batchChan, result,
                   daemonCalls, invoked, received>>
    /\ UNCHANGED <<helper, graphVars, apiVars>>

\* The caller receives one componentResult.
MainCollect ==
    /\ xpc = "collect"
    /\ received < Len(components)
    /\ Len(resultChan) > 0
    /\ result' = [result EXCEPT !.res = AppendBuckets(@, Head(resultChan))]
    /\ resultChan' = Tail(resultChan)
    /\ received' = received + 1
    /\ UNCHANGED <<job, xpc, ctxDone, graph, components, comp, task, batchChan,
                   daemonCalls, invoked>>
    /\ UNCHANGED <<helper, graphVars, apiVars>>

\* The caller returns once one component has reported.
ExecReturn_afterFirst ==
    /\ xpc = "collect"
    /\ received >= 1
    /\ xpc' = "returned"
    /\ UNCHANGED <<job, ctxDone, graph, components, comp, task, batchChan, resultChan,
                   result, daemonCalls, invoked, received>>
    /\ UNCHANGED <<helper, graphVars, apiVars>>

\* The caller has received len(components) results and returns.
ExecReturn ==
    /\ xpc = "collect"
    /\ received = Len(components)
    /\ xpc' = "returned"
    /\ UNCHANGED <<job, ctxDone, graph, components, comp, task, batchChan, resultChan,
                   result, daemonCalls, invoked, received>>
    /\ UNCHANGED <<helper, graphVars, apiVars>>

\* The goroutine of batch entry t sends its batchResult and ends.
Send(t, bucket) ==
    /\ batchChan' = [batchChan EXCEPT ![t[1]] = Append(@, OneBucket(bucket, NodeOf(t)))]
    /\ task' = [task EXCEPT ![t].pc = "done"]

\* Where startContainer stands after health gating: at the delay or at the
\* daemon start call.
AfterGate(n) == IF graph[n].StartupDelay > 0 THEN "delay" ELSE "act"

\* The gating loop of startContainer moves to parent i, or past the loop.
GateAt(t, i) ==
    IF i > Len(graph[NodeOf(t)].Parents)
    THEN task' = [task EXCEPT ![t].pc = AfterGate(NodeOf(t)), ![t].gateIdx = 0]
    ELSE task' = [task EXCEPT ![t].pc = "gate", ![t].gateIdx = i]

\* The ignore test dropped: every node is started or stopped.
TaskBegin_noIgnoreTest(t) ==
    /\ xpc = "collect"
    /\ task[t].pc = "spawned"
    /\ invoked' = [invoked EXCEPT ![NodeOf(t)] = @ + 1]
    /\ daemonCalls' = daemonCalls \cup {<<"running", NodeOf(t)>>}
    /\ \/ Send(t, "failed")
       \/ ~ctxDone /\ Send(t, "acted")
    /\ UNCHANGED <<job, xpc, ctxDone, graph, components, comp, resultChan, result,
                   received>>
    /\ UNCHANGED <<helper, graphVars, apiVars>>

\* What IsContainerRunning answered for container n, kept with the calls.
Reported(running, n) == <<IF running THEN "is running" ELSE "not running", n>>

\* startContainer/stopContainer without the early return: the container is
\* started or stopped whatever IsContainerRunning answered.
TaskBegin_noRunningTest(t) ==
    /\ xpc = "collect"
    /\ task[t].pc = "spawned"
    /\ LET n == NodeOf(t)
       IN  IF ignoreMap(n)
           THEN /\ Send(t, "skipped")
                /\ UNCHANGED <<daemonCalls, invoked>>
           ELSE /\ invoked' = [invoked EXCEPT ![n] = @ + 1]
                /\ \/ /\ daemonCalls' = daemonCalls \cup {<<"running", n>>}
                      /\ Send(t, "failed")
                   \/ /\ ~ctxDone
                      /\ \E running \in BOOLEAN :
                            daemonCalls' = daemonCalls \cup {<<"running", n>>, Reported(running, n)}
                      /\ UNCHANGED batchChan
                      /\ task' = [task EXCEPT ![t].pc = "act"]
    /\ UNCHANGED <<job, xpc, ctxDone, graph, components, comp, resultChan, result,
                   received>>
    /\ UNCHANGED <<helper, graphVars, apiVars>>

\* A node goroutine starts: the ignore test and, for a node not ignored, the
\* IsContainerRunning check that opens startContainer/stopContainer.  A
\* daemon call made with an expired context fails.
TaskBegin(t) ==
    /\ xpc = "collect"
    /\ task[t].pc = "spawned"
    /\ LET n == NodeOf(t)
       IN  IF ignoreMap(n)
           THEN /\ Send(t, "skipped")
                /\ UNCHANGED <<daemonCalls, invoked>>
           ELSE /\ invoked' = [invoked EXCEPT ![n] = @ + 1]
                /\ \/ /\ daemonCalls' = daemonCalls \cup {<<"running", n>>}
                      /\ Send(t, "failed")
                   \/ /\ ~ctxDone
                      /\ \E running \in BOOLEAN :
                            /\ daemonCalls' = daemonCalls \cup {<<"running", n>>, Reported(running, n)}
                            /\ IF running = (Verb = "start")
                               THEN Send(t, "acted")
                               ELSE /\ UNCHANGED batchChan
                                    /\ IF Verb = "stop"
                                       THEN task' = [task EXCEPT ![t].pc = "act"]
                                       ELSE IF graph[n].WaitForHealthcheck
                                               /\ Len(graph[n].Parents) > 0
                                       THEN GateAt(t, 1)
                                       ELSE task' = [task EXCEPT ![t].pc = AfterGate(n)]
    /\ UNCHANGED <<job, xpc, ctxDone, graph, components, comp, resultChan, result,
                   received>>
    /\ UNCHANGED <<helper, graphVars, apiVars>>

\* One iteration of the gating loop: a placeholder parent is passed over;
\* otherwise HasHealthCheck is asked, and asked again by waitForHealthy,
\* and only when both report a health-check does the polling start.
TaskGate(t) ==
    /\ xpc = "collect"
    /\ task[t].pc = "gate"
    /\ LET parent == graph[NodeOf(t)].Parents[task[t].gateIdx]
       IN  IF graph[parent].IsPlaceholder
           THEN /\ GateAt(t, task[t].gateIdx + 1)
                /\ UNCHANGED daemonCalls
           ELSE /\ daemonCalls' = daemonCalls \cup {<<"hashealth", parent>>}
                /\ \/ GateAt(t, task[t].gateIdx + 1)
                   \/ /\ ~ctxDone
                      /\ task' = [task EXCEPT ![t].pc = "poll"]
    /\ UNCHANGED <<job, xpc, ctxDone, graph, components, comp, batchChan, resultChan,
                   result, invoked, received>>
    /\ UNCHANGED <<helper, graphVars, apiVars>>

\* waitForHealthy's timeout taken as a failure of the node's start.
TaskPoll_failsOnTimeout(t) ==
    /\ xpc = "collect"
    /\ task[t].pc = "poll"
    /\ LET parent == graph[NodeOf(t)].Parents[task[t].gateIdx]
       IN  \/ /\ ctxDone
              /\ GateAt(t, task[t].gateIdx + 1)
              /\ UNCHANGED <<daemonCalls, batchChan>>
           \/ /\ Send(t, "failed")
              /\ UNCHANGED daemonCalls
           \/ /\ daemonCalls' = daemonCalls \cup {<<"health", parent>>}
              /\ UNCHANGED batchChan
              /\ \/ UNCHANGED task
                 \/ /\ ~ctxDone
                    /\ GateAt(t, task[t].gateIdx + 1)
    /\ UNCHANGED <<job, xpc, ctxDone, graph, components, comp, resultChan,
                   result, invoked, received>>
    /\ UNCHANGED <<helper, graphVars, apiVars>>

\* One turn of the select of waitForHealthy: the context is done, the 60 s
\* timer fired, or a tick on which GetHealthStatus is asked.
TaskPoll(t) ==
    /\ xpc = "collect"
    /\ task[t].pc = "poll"
    /\ LET parent == graph[NodeOf(t)].Parents[task[t].gateIdx]
       IN  \/ /\ ctxDone
              /\ GateAt(t, task[t].gateIdx + 1)
              /\ UNCHANGED daemonCalls
           \/ /\ GateAt(t, task[t].gateIdx + 1)
              /\ UNCHANGED daemonCalls
           \/ /\ daemonCalls' = daemonCalls \cup {<<"health", parent>>}
              /\ \/ UNCHANGED task
                 \/ /\ ~ctxDone
                    /\ GateAt(t, task[t].gateIdx + 1)
    /\ UNCHANGED <<job, xpc, ctxDone, graph, components, comp, batchChan, resultChan,
                   result, invoked, received>>
    /\ UNCHANGED <<helper, graphVars, apiVars>>

\* The startup delay as a plain sleep: the context is not looked at.
TaskDelay_sleeps(t) ==
    /\ xpc = "collect"
    /\ task[t].pc = "delay"
    /\ ~ctxDone
    /\ task' = [task EXCEPT ![t].pc = "act"]
    /\ UNCHANGED <<job, xpc, ctxDone, graph, components, comp, batchChan, resultChan, result,
                   daemonCalls, invoked, received>>
    /\ UNCHANGED <<helper, graphVars, apiVars>>

\* The select of the startup delay.
TaskDelay(t) ==
    /\ xpc = "collect"
    /\ task[t].pc = "delay"
    /\ \/ /\ task' = [task EXCEPT ![t].pc = "act"]
          /\ UNCHANGED batchChan
       \/ /\ ctxDone
          /\ Send(t, "failed")
    /\ UNCHANGED <<job, xpc, ctxDone, graph, components, comp, resultChan, result,
                   daemonCalls, invoked, received>>
    /\ UNCHANGED <<helper, graphVars, apiVars>>

\* The daemon call StartContainer/StopContainer and the outcome it decides.
TaskAct(t) ==
    /\ xpc = "collect"
    /\ task[t].pc = "act"
    /\ daemonCalls' = daemonCalls \cup {<<Verb, NodeOf(t)>>}
    /\ \/ Send(t, "failed")
       \/ /\ ~ctxDone
          /\ Send(t, "acted")
    /\ UNCHANGED <<job, xpc, ctxDone, graph, components, comp, resultChan, result,
                   invoked, received>>
    /\ UNCHANGED <<helper, graphVars, apiVars>>

ExecNext ==
    \/ JobSetRunning
    \/ ExecBegin
    \/ Timeout
    \/ \E c \in DOMAIN comp : CompSpawn(c)
    \/ \E c \in DOMAIN comp : CompCollect(c)
    \/ \E c \in DOMAIN comp : CompSend(c)
    \/ \E t \in DOMAIN task : TaskBegin(t)
    \/ \E t \in DOMAIN task : TaskGate(t)
    \/ \E t \in DOMAIN task : TaskPoll(t)
    \/ \E t \in DOMAIN task : TaskDelay(t)
    \/ \E t \in DOMAIN task : TaskAct(t)
    \/ MainCollect
    \/ ExecReturn
    \/ JobSetError
    \/ JobSetResults
    \/ JobSetCompleted
    \/ JobUnknownType

\* Inputs of a job run.
MaxIgnore == 1

\* The job types of types.go and one that processJob does not know.
JobTypes == {"start", "stop", "restart"}

\* Ignore lists: at most MaxIgnore of the names in use.
IgnoreLists ==
    {SelectSeq(ListOrder \o <<Missing>>, LAMBDA n : n \in S) :
        S \in {T \in SUBSET DepNames : Cardinality(T) <= MaxIgnore}}

\* Label sets the executor is run on: dependency shapes, each without and
\* with a health gate and a startup delay on every container.
Deps(a, b, c) == [x \in Containers |-> IF x = "a" THEN a ELSE IF x = "b" THEN b ELSE c]

ExecDeps ==
    { Deps(<<>>, <<>>, <<>>),                  \* three independent containers
      Deps(<<>>, <<"a">>, <<"b">>),            \* chain a, b, c
      Deps(<<>>, <<"a">>, <<"a">>),            \* b and c depend on a
      Deps(<<>>, <<>>, <<"a", "b">>),          \* c depends on a and b
      Deps(<<>>, <<"a">>, <<"b", "a">>),       \* c depends on b and on b's parent
      Deps(<<>>, <<"a">>, <<>>),               \* chain a, b and c on its own
      Deps(<<>>, <<"a", "a">>, <<"m">>),       \* duplicate entry, missing parent
      Deps(<<"m">>, <<"m", "a">>, <<>>),       \* missing parent shared
      Deps(<<"a">>, <<>>, <<>>),               \* self-dependency
      Deps(<<"b">>, <<"a">>, <<>>),            \* cycle a, b and c on its own
      Deps(<<"c">>, <<"a">>, <<"b">>) }        \* cycle a, b, c

ExecLabels ==
    {[deps |-> d, optOut |-> FALSE,
      delay |-> [c \in Containers |-> IF x THEN 1 ELSE 0],
      healthchecks |-> [c \in Containers |-> x]] : d \in ExecDeps, x \in BOOLEAN}

Init ==
    /\ labels \in ExecLabels
    /\ analysis = None
    /\ job \in {NewJob(ty, ig) : ty \in JobTypes, ig \in IgnoreLists}
    /\ xpc = "queued"
    /\ ctxDone = FALSE
    /\ graph = EmptyMap
    /\ components = <<>>
    /\ comp = <<>>
    /\ task = EmptyMap
    /\ batchChan = <<>>
    /\ resultChan = <<>>
    /\ result = None
    /\ daemonCalls = {}
    /\ invoked = EmptyMap
    /\ received = 0
    /\ ApiIdle

\* A job run, or a graph operation applied to the same labels apart from it.
Next ==
    \/ ExecNext
    \/ GraphNext

Spec == Init /\ [][Next]_vars

\* Start jobs on containers that all wait for their parents' health
\* checks and have a startup delay.
GateInit ==
    /\ Init
    /\ job.Type = "start"
    /\ \A c \in Containers : labels.healthchecks[c]

GateNext ==
    \/ JobSetRunning
    \/ ExecBegin
    \/ Timeout
    \/ \E c \in DOMAIN comp : CompSpawn(c)
    \/ \E c \in DOMAIN comp : CompCollect(c)
    \/ \E c \in DOMAIN comp : CompSend(c)
    \/ \E t \in DOMAIN task : TaskBegin(t)
    \/ \E t \in DOMAIN task : TaskGate(t)
    \/ \E t \in DOMAIN task : TaskPoll(t)
    \/ \E t \in DOMAIN task : TaskDelay(t)
    \/ \E t \in DOMAIN task : TaskAct(t)
    \/ MainCollect
    \/ ExecReturn
    \/ JobSetError
    \/ JobSetResults
    \/ JobSetCompleted

\* A goroutine in the gating loop goes on to the next parent or to the
\* polling, and a polling goroutine leaves waitForHealthy: the parent
\* reports healthy, the 60 s timer fires or the context is done.
GateExit ==
    \E t \in DOMAIN task : TaskGate(t) \/ (TaskPoll(t) /\ task'[t].pc # "poll")

\* Start calls in which the daemon answers HasHealthCheck and the timers of
\* waitForHealthy fire.
SpecGate == GateInit /\ [][GateNext]_vars /\ WF_vars(GateExit)

\* Start and stop jobs without an ignore list, on containers that all wait
\* for their parents' health checks and have a startup delay.
DeadlineInit ==
    /\ Init
    /\ job.Type \in {"start", "stop"}
    /\ job.Ignore = <<>>
    /\ \A c \in Containers : labels.healthchecks[c]

\* What the goroutines of a call do without any timer firing: the component
\* goroutines and the caller take their steps, a node goroutine takes its
\* steps outside the delay and the polling, and leaves the delay and the
\* polling through the ctx.Done() case once the context is done.
DeadlineProgress ==
    \/ \E c \in DOMAIN comp : CompSpawn(c) \/ CompCollect(c) \/ CompSend(c)
    \/ \E t \in DOMAIN task : TaskBegin(t) \/ TaskGate(t) \/ TaskAct(t)
    \/ \E t \in DOMAIN task : ctxDone /\ TaskDelay(t) /\ task'[t].pc = "done"
    \/ \E t \in DOMAIN task : ctxDone /\ TaskPoll(t) /\ task'[t].pc # "poll"
    \/ MainCollect
    \/ ExecReturn

\* Calls whose goroutines are scheduled, with no assumption on the timers
\* of the delay and of waitForHealthy.
SpecDeadline == DeadlineInit /\ [][GateNext]_vars /\ WF_vars(DeadlineProgress)

(***************************************************************************)
(* internal/api/handlers.go and the queue side of internal/jobs/manager.go *)
(***************************************************************************)
MaxRequests == 3

\* Capacity of Manager.jobQueue.
QueueCap == 100

DefaultWorkerCount == 3

Requests == 1..MaxRequests

\* A []string value: the address of its backing array (0: none) and its
\* length.
EmptySlice == [arr |-> 0, len |-> 0]

\* NewJob at time t, with an empty ignore list: type, status, creation
\* time, error string and the slices, all empty and non-nil.
NewJobAt(jobType, t) ==
    [Type |-> jobType, Status |-> "pending", CreatedAt |-> t, Error |-> "",
     Ignore |-> EmptySlice, Started |-> EmptySlice, Stopped |-> EmptySlice,
     Skipped |-> EmptySlice, Failed |-> EmptySlice]

\* Job.SetStatus: the status is written whatever it was.
SetStatus(j, status) == [j EXCEPT !.Status = status]

\* Job.SetError: the error string is stored and the status set to Failed.
SetError(j, err) == [j EXCEPT !.Error = err, !.Status = "failed"]

\* The fields of a Job that are slices, in the order Clone copies them.
SliceFields == <<"Ignore", "Started", "Stopped", "Skipped", "Failed">>

\* The elements of slice s, read from the backing arrays arrs.
Deref(arrs, s) == IF s.len = 0 THEN <<>> ELSE SubSeq(arrs[s.arr], 1, s.len)

\* A slice over a fresh array holding xs, and the arrays with it; an empty
\* list takes no array.
SliceOf(arrs, xs) ==
    IF xs = <<>> THEN EmptySlice ELSE [arr |-> Len(arrs) + 1, len |-> Len(xs)]

WithArray(arrs, xs) == IF xs = <<>> THEN arrs ELSE Append(arrs, xs)

\* What the executor returns to processStartJob/processStopJob: the names it
\* acted on, skipped and failed on.
ResultLists ==
    {[acted |-> <<"a", "b">>, skipped |-> <<>>, failed |-> <<>>],
     [acted |-> <<"a">>, skipped |-> <<>>, failed |-> <<"b">>]}

\* Job.SetResults(result.Started, nil, result.Skipped, result.Failed) of a
\* start job, and its like of a stop job: the job's fields become the
\* result's slices themselves; ss holds the slices of acted, skipped, failed.
SetResults(j, ss) ==
    IF j.Type = "stop"
    THEN [j EXCEPT !.Stopped = ss[1], !.Skipped = ss[2], !.Failed = ss[3]]
    ELSE [j EXCEPT !.Started = ss[1], !.Skipped = ss[2], !.Failed = ss[3]]

\* The slices of a result whose lists are allocated, in turn, on arrs.
ResultSlices(arrs, res) ==
    <<SliceOf(arrs, res.acted),
      SliceOf(WithArray(arrs, res.acted), res.skipped),
      SliceOf(WithArray(WithArray(arrs, res.acted), res.skipped), res.failed)>>

\* Clone with every slice field copied as a slice header only.
Clone_shallow(arrs, j) == [arrays |-> arrs, job |-> j]

RECURSIVE CloneFrom(_, _, _)
\* Clone, from the i-th slice field on: append([]string{}, j.F...) copies
\* the elements to a fresh array; c is the copy so far.
CloneFrom(arrs, c, i) ==
    IF i > Len(SliceFields) THEN [arrays |-> arrs, job |-> c]
    ELSE CloneFrom(WithArray(arrs, Deref(arrs, c[SliceFields[i]])),
                   [c EXCEPT ![SliceFields[i]] = SliceOf(arrs, Deref(arrs, @))],
                   i + 1)

\* Job.Clone: the scalar fields by value, the slices by CloneFrom.
Clone(arrs, j) == CloneFrom(arrs, j, 1)

RECURSIVE CloneAll(_, _, _, _)
\* Manager.List: the clones of the registered jobs, in map order.
CloneAll(arrs, hp, ptrs, cs) ==
    IF ptrs = <<>> THEN [arrays |-> arrs, jobs |-> cs]
    ELSE CloneAll(Clone(arrs, hp[Head(ptrs)]).arrays, hp, Tail(ptrs),
                  Append(cs, Clone(arrs, hp[Head(ptrs)]).job))

\* A string of the query is the sequence of its characters; query holds the
\* values of the request's ignore parameters, in the order of the URL.
NoRequest ==
    [route |-> "", pc |-> "none", blocked |-> FALSE, seen |-> FALSE, arg |-> 0,
     code |-> 0, body |-> "", query |-> <<>>]

RECURSIVE SplitSeq(_, _)
\* strings.SplitSeq(param, ","): the substrings between the commas, part
\* being the one that is being read.
SplitSeq(s, part) ==
    IF s = <<>> THEN <<part>>
    ELSE IF Head(s) = "," THEN <<part>> \o SplitSeq(Tail(s), <<>>)
    ELSE SplitSeq(Tail(s), Append(part, Head(s)))

RECURSIVE TrimSpace_leadingOnly(_)
\* TrimSpace that leaves trailing white space in place.
TrimSpace_leadingOnly(s) ==
    IF s # <<>> /\ Head(s) = " " THEN TrimSpace_leadingOnly(Tail(s)) ELSE s

RECURSIVE TrimSpace(_)
\* strings.TrimSpace: leading and trailing white space removed.
TrimSpace(s) ==
    IF s = <<>> THEN s
    ELSE IF Head(s) = " " THEN TrimSpace(Tail(s))
    ELSE IF s[Len(s)] = " " THEN TrimSpace(SubSeq(s, 1, Len(s) - 1))
    ELSE s

RECURSIVE IgnoreParts(_, _, _)
\* The inner loop of HandleStopContainers over the parts of one parameter.
IgnoreParts(parts, i, ignore) ==
    IF i > Len(parts) THEN ignore
    ELSE IgnoreParts(parts, i + 1,
                     IF TrimSpace(parts[i]) # <<>>
                     THEN Append(ignore, TrimSpace(parts[i]))
                     ELSE ignore)

RECURSIVE IgnoreParams(_, _, _)
\* The outer loop of HandleStopContainers over query["ignore"].
IgnoreParams(params, i, ignore) ==
    IF i > Len(params) THEN ignore
    ELSE IgnoreParams(params, i + 1,
                      IgnoreParts(SplitSeq(params[i], <<>>), 1, ignore))

\* The ignore argument the handler of request r gives to NewJob: nil in
\* HandleStartContainers, the parsed parameters in HandleStopContainers.
HandlerIgnore(r) ==
    IF reqs[r].route = "stop" THEN IgnoreParams(reqs[r].query, 1, <<>>) ELSE <<>>

QueueClosed == shutdown # "none"

\* m.ctx.Done() is closed.
ManagerDone == shutdown \notin {"none", "closed"}

\* writeJSON/writeError: the response of request r.
Respond(r, code, body) ==
    reqs' = [reqs EXCEPT ![r].pc = "responded", ![r].code = code, ![r].body = body,
                         ![r].seen = isBlocked]

\* The router hands the next request to its handler; arg is the job id of a
\* /job_status request.  The job of a /start or /stop request gets the
\* request's number as its id.
Router(route, arg) ==
    /\ \E r \in Requests :
          /\ reqs[r].pc = "none"
          /\ \A q \in 1..(r - 1) : reqs[q].pc # "none"
          /\ reqs' = [reqs EXCEPT ![r] = [NoRequest EXCEPT !.route = route,
                                                           !.pc = "new", !.arg = arg]]
    /\ UNCHANGED <<isBlocked, unblockCancel, timers, jobs, jobQueue, workers, shutdown, cleanupLoop>>
    /\ UNCHANGED <<helper, graphVars, execVars, jobVars>>

\* HandleStartContainers/HandleStopContainers: blocked := s.isBlocked, read
\* under blockMutex.RLock.
ReadBlocked(r) ==
    /\ reqs[r].pc = "new"
    /\ reqs[r].route \in {"start", "stop"}
    /\ reqs' = [reqs EXCEPT ![r].blocked = isBlocked, ![r].pc = "checked"]
    /\ UNCHANGED <<isBlocked, unblockCancel, timers, jobs, jobQueue, workers, shutdown, cleanupLoop>>
    /\ UNCHANGED <<helper, graphVars, execVars, jobVars>>

\* The test of blocked dropped: the handler goes on to Submit.
RespondBlocked_submits(r) ==
    /\ reqs[r].pc = "checked"
    /\ reqs[r].blocked
    /\ reqs' = [reqs EXCEPT ![r].pc = "submit"]
    /\ UNCHANGED <<isBlocked, unblockCancel, timers, jobs, jobQueue, workers, shutdown, cleanupLoop>>
    /\ UNCHANGED <<helper, graphVars, execVars, jobVars>>

\* if blocked: 503 "Operation blocked", and the handler returns.
RespondBlocked(r) ==
    /\ reqs[r].pc = "checked"
    /\ reqs[r].blocked
    /\ Respond(r, 503, "Operation blocked")
    /\ UNCHANGED <<isBlocked, unblockCancel, timers, jobs, jobQueue, workers, shutdown, cleanupLoop>>
    /\ UNCHANGED <<helper, graphVars, execVars, jobVars>>

\* Submit without its first select: the job goes on to be registered.
SubmitCheck_noDoneTest(r) ==
    /\ reqs[r].pc = "checked"
    /\ ~reqs[r].blocked
    /\ heap' = Put(heap, r, NewJobAt(reqs[r].route, now))
    /\ reqs' = [reqs EXCEPT ![r].pc = "submit"]
    /\ UNCHANGED <<isBlocked, unblockCancel, timers, jobs, jobQueue, workers, shutdown, cleanupLoop>>
    /\ UNCHANGED <<helper, graphVars, execVars, now, arrays, copies>>

\* Not blocked: NewJob, and the first select of Submit, which returns the
\* shutting-down error when the manager's context is done.
SubmitCheck(r) ==
    /\ reqs[r].pc = "checked"
    /\ ~reqs[r].blocked
    /\ heap' = Put(heap, r, [NewJobAt(reqs[r].route, now) EXCEPT
                                !.Ignore = SliceOf(arrays, HandlerIgnore(r))])
    /\ arrays' = WithArray(arrays, HandlerIgnore(r))
    /\ IF ManagerDone
       THEN Respond(r, 500, "Failed to submit job")
       ELSE reqs' = [reqs EXCEPT ![r].pc = "submit"]
    /\ UNCHANGED <<isBlocked, unblockCancel, timers, jobs, jobQueue, workers, shutdown, cleanupLoop>>
    /\ UNCHANGED <<helper, graphVars, execVars, now, copies>>

\* Submit without the insert into m.jobs.
SubmitRegister_noInsert(r) ==
    /\ reqs[r].pc = "submit"
    /\ reqs' = [reqs EXCEPT ![r].pc = "registered"]
    /\ UNCHANGED <<isBlocked, unblockCancel, timers, jobs, jobQueue, workers, shutdown, cleanupLoop>>
    /\ UNCHANGED <<helper, graphVars, execVars, jobVars>>

\* Submit: m.jobs[job.ID] = job under jobsMu.
SubmitRegister(r) ==
    /\ reqs[r].pc = "submit"
    /\ jobs' = Put(jobs, r, r)
    /\ reqs' = [reqs EXCEPT ![r].pc = "registered"]
    /\ UNCHANGED <<isBlocked, unblockCancel, timers, jobQueue, workers, shutdown, cleanupLoop>>
    /\ UNCHANGED <<helper, graphVars, execVars, jobVars>>

\* The second select of Submit: the send on jobQueue, which panics on a
\* closed channel (RecoveryMiddleware answers 500), or the done context.
SubmitSend(r) ==
    /\ reqs[r].pc = "registered"
    /\ \/ /\ QueueClosed
          /\ Respond(r, 500, "Internal server error")
          /\ UNCHANGED jobQueue
       \/ /\ ~QueueClosed
          /\ Len(jobQueue) < QueueCap
          /\ jobQueue' = Append(jobQueue, r)
          /\ Respond(r, 200, "job_id")
       \/ /\ ManagerDone
          /\ Respond(r, 500, "Failed to submit job")
          /\ UNCHANGED jobQueue
    /\ UNCHANGED <<isBlocked, unblockCancel, timers, jobs, workers, shutdown, cleanupLoop>>
    /\ UNCHANGED <<helper, graphVars, execVars, jobVars>>

HandleGetJobStatus(r) ==
    /\ reqs[r].pc = "new"
    /\ reqs[r].route = "job_status"
    /\ IF reqs[r].arg \in DOMAIN jobs
       THEN Respond(r, 200, heap[jobs[reqs[r].arg]].Status)
       ELSE Respond(r, 404, "not_found")
    /\ UNCHANGED <<isBlocked, unblockCancel, timers, jobs, jobQueue, workers, shutdown, cleanupLoop>>
    /\ UNCHANGED <<helper, graphVars, execVars, jobVars>>

HandleHealth(r) ==
    /\ reqs[r].pc = "new"
    /\ reqs[r].route = "ping"
    /\ Respond(r, 200, "healthy")
    /\ UNCHANGED <<isBlocked, unblockCancel, timers, jobs, jobQueue, workers, shutdown, cleanupLoop>>
    /\ UNCHANGED <<helper, graphVars, execVars, jobVars>>

\* HandleBlock, all of it under blockMutex: the cancel func in place is
\* called, the flag set, a new cancel func stored and the auto-unblock
\* goroutine started.
HandleBlock(r) ==
    /\ reqs[r].pc = "new"
    /\ reqs[r].route = "block"
    /\ timers' = Put(IF unblockCancel # 0
                     THEN [timers EXCEPT ![unblockCancel].cancelled = TRUE]
                     ELSE timers,
                     r, [pc |-> "select", cancelled |-> FALSE])
    /\ isBlocked' = TRUE
    /\ unblockCancel' = r
    /\ reqs' = [reqs EXCEPT ![r].pc = "responded", ![r].code = 200,
                            ![r].body = "Operations are now blocked",
                            ![r].seen = isBlocked]
    /\ UNCHANGED <<jobs, jobQueue, workers, shutdown, cleanupLoop>>
    /\ UNCHANGED <<helper, graphVars, execVars, jobVars>>

\* HandleUnblock, all of it under blockMutex.
HandleUnblock(r) ==
    /\ reqs[r].pc = "new"
    /\ reqs[r].route = "unblock"
    /\ timers' = IF unblockCancel # 0
                 THEN [timers EXCEPT ![unblockCancel].cancelled = TRUE]
                 ELSE timers
    /\ unblockCancel' = 0
    /\ isBlocked' = FALSE
    /\ reqs' = [reqs EXCEPT ![r].pc = "responded", ![r].code = 200,
                            ![r].body = "Operations are now unblocked",
                            ![r].seen = isBlocked]
    /\ UNCHANGED <<jobs, jobQueue, workers, shutdown, cleanupLoop>>
    /\ UNCHANGED <<helper, graphVars, execVars, jobVars>>

\* The select of the auto-unblock goroutine takes the timer's case (when the
\* context is cancelled as well, either case may be taken).
AutoUnblockFire(t) ==
    /\ timers[t].pc = "select"
    /\ timers' = [timers EXCEPT ![t].pc = "fired"]
    /\ UNCHANGED <<isBlocked, unblockCancel, reqs, jobs, jobQueue, workers, shutdown, cleanupLoop>>
    /\ UNCHANGED <<helper, graphVars, execVars, jobVars>>

\* The timer's case without the write of the flag.
AutoUnblock_keepsFlag(t) ==
    /\ timers[t].pc = "fired"
    /\ unblockCancel' = 0
    /\ timers' = [timers EXCEPT ![t].pc = "done"]
    /\ UNCHANGED <<isBlocked, reqs, jobs, jobQueue, workers, shutdown, cleanupLoop>>
    /\ UNCHANGED <<helper, graphVars, execVars, jobVars>>

\* The timer's case: under blockMutex the flag and the cancel func are
\* cleared.
AutoUnblock(t) ==
    /\ timers[t].pc = "fired"
    /\ isBlocked' = FALSE
    /\ unblockCancel' = 0
    /\ timers' = [timers EXCEPT ![t].pc = "done"]
    /\ UNCHANGED <<reqs, jobs, jobQueue, workers, shutdown, cleanupLoop>>
    /\ UNCHANGED <<helper, graphVars, execVars, jobVars>>

\* The select takes the case of the cancelled context.
AutoUnblockCancelled(t) ==
    /\ timers[t].pc = "select"
    /\ timers[t].cancelled
    /\ timers' = [timers EXCEPT ![t].pc = "done"]
    /\ UNCHANGED <<isBlocked, unblockCancel, reqs, jobs, jobQueue, workers, shutdown, cleanupLoop>>
    /\ UNCHANGED <<helper, graphVars, execVars, jobVars>>

\* The number of workers waiting on jobQueue.
IdleWorkers == DefaultWorkerCount - Cardinality(workers.busy) - workers.stopped

\* The worker without processJob's SetStatus(JobStatusRunning).
WorkerReceive_noRunning ==
    /\ IdleWorkers > 0
    /\ Len(jobQueue) > 0
    /\ workers' = [workers EXCEPT !.busy = @ \cup {Head(jobQueue)}]
    /\ jobQueue' = Tail(jobQueue)
    /\ UNCHANGED <<isBlocked, unblockCancel, timers, reqs, jobs, shutdown, cleanupLoop>>
    /\ UNCHANGED <<helper, graphVars, execVars, jobVars>>

\* worker: a job is received from jobQueue and processJob sets it Running.
WorkerReceive ==
    /\ IdleWorkers > 0
    /\ Len(jobQueue) > 0
    /\ workers' = [workers EXCEPT !.busy = @ \cup {Head(jobQueue)}]
    /\ jobQueue' = Tail(jobQueue)
    /\ heap' = [heap EXCEPT ![Head(jobQueue)] = SetStatus(@, "running")]
    /\ UNCHANGED <<isBlocked, unblockCancel, timers, reqs, jobs, shutdown, cleanupLoop>>
    /\ UNCHANGED <<helper, graphVars, execVars, now, arrays, copies>>

\* The worker's last write puts the job back into the registry.
WorkerFinish_reinserts(id) ==
    /\ id \in workers.busy
    /\ IF id \in workers.results
       THEN heap' = [heap EXCEPT ![id] = SetStatus(@, "completed")]
       ELSE heap' = [heap EXCEPT ![id] = SetError(@, "error")]
    /\ jobs' = Put(jobs, id, id)
    /\ workers' = [workers EXCEPT !.busy = @ \ {id}, !.results = @ \ {id}]
    /\ UNCHANGED <<isBlocked, unblockCancel, timers, reqs, jobQueue, shutdown, cleanupLoop>>
    /\ UNCHANGED <<helper, graphVars, execVars, now, arrays, copies>>

\* processStartJob/processStopJob end: the job is Failed (SetError) or
\* Completed.
WorkerFinish(id) ==
    /\ id \in workers.busy
    /\ IF id \in workers.results
       THEN heap' = [heap EXCEPT ![id] = SetStatus(@, "completed")]
       ELSE heap' = [heap EXCEPT ![id] = SetError(@, "error")]
    /\ workers' = [workers EXCEPT !.busy = @ \ {id}, !.results = @ \ {id}]
    /\ UNCHANGED <<isBlocked, unblockCancel, timers, reqs, jobs, jobQueue, shutdown, cleanupLoop>>
    /\ UNCHANGED <<helper, graphVars, execVars, now, arrays, copies>>

\* WorkerSetResults that stores the result of an executor that returned an
\* error as well: the job is not marked as holding results.
WorkerSetResults_onError(id) ==
    /\ id \in workers.busy \ workers.results
    /\ \E res \in ResultLists :
          /\ heap' = [heap EXCEPT ![id] = SetResults(@, ResultSlices(arrays, res))]
          /\ arrays' = WithArray(WithArray(WithArray(arrays, res.acted), res.skipped),
                                 res.failed)
    /\ heap[id].Started = EmptySlice /\ heap[id].Stopped = EmptySlice
    /\ UNCHANGED <<isBlocked, unblockCancel, timers, reqs, jobs, jobQueue, shutdown, cleanupLoop>>
    /\ UNCHANGED <<helper, graphVars, execVars, now, copies, workers>>

\* processStartJob/processStopJob: the executor returned a result and
\* SetResults stores its slices in the job.
WorkerSetResults(id) ==
    /\ id \in workers.busy \ workers.results
    /\ \E res \in ResultLists :
          /\ heap' = [heap EXCEPT ![id] = SetResults(@, ResultSlices(arrays, res))]
          /\ arrays' = WithArray(WithArray(WithArray(arrays, res.acted), res.skipped),
                                 res.failed)
    /\ workers' = [workers EXCEPT !.results = @ \cup {id}]
    /\ UNCHANGED <<isBlocked, unblockCancel, timers, reqs, jobs, jobQueue, shutdown, cleanupLoop>>
    /\ UNCHANGED <<helper, graphVars, execVars, now, copies>>

\* A worker that returns as soon as the queue is closed, whatever is left
\* in it.
WorkerStop_dropsQueue ==
    /\ IdleWorkers > 0
    /\ QueueClosed
    /\ workers' = [workers EXCEPT !.stopped = @ + 1]
    /\ UNCHANGED <<isBlocked, unblockCancel, timers, reqs, jobs, jobQueue, shutdown, cleanupLoop>>
    /\ UNCHANGED <<helper, graphVars, execVars, jobVars>>

\* The range over jobQueue ends: the queue is closed and drained.
WorkerStop ==
    /\ IdleWorkers > 0
    /\ Len(jobQueue) = 0
    /\ QueueClosed
    /\ workers' = [workers EXCEPT !.stopped = @ + 1]
    /\ UNCHANGED <<isBlocked, unblockCancel, timers, reqs, jobs, jobQueue, shutdown, cleanupLoop>>
    /\ UNCHANGED <<helper, graphVars, execVars, jobVars>>

\* Shutdown: close(m.jobQueue).
ShutdownClose ==
    /\ shutdown = "none"
    /\ shutdown' = "closed"
    /\ UNCHANGED <<isBlocked, unblockCancel, timers, reqs, jobs, jobQueue, workers,
                   cleanupLoop>>
    /\ UNCHANGED <<helper, graphVars, execVars, jobVars>>

\* Shutdown: m.cancel().
ShutdownCancel ==
    /\ shutdown = "closed"
    /\ shutdown' = "cancelled"
    /\ UNCHANGED <<isBlocked, unblockCancel, timers, reqs, jobs, jobQueue, workers,
                   cleanupLoop>>
    /\ UNCHANGED <<helper, graphVars, execVars, jobVars>>

\* The done case of Shutdown's select taken without wg.Wait() having
\* returned.
ShutdownWait_noWait ==
    /\ shutdown = "cancelled"
    /\ \/ shutdown' = "done"
       \/ shutdown' = "timeout"
    /\ UNCHANGED <<isBlocked, unblockCancel, timers, reqs, jobs, jobQueue, workers,
                   cleanupLoop>>
    /\ UNCHANGED <<helper, graphVars, execVars, jobVars>>

\* Shutdown: the select on done, closed once wg.Wait() has returned (every
\* worker has left its range over jobQueue), and on time.After(timeout).
ShutdownWait ==
    /\ shutdown = "cancelled"
    /\ \/ /\ workers.stopped = DefaultWorkerCount
          /\ shutdown' = "done"
       \/ shutdown' = "timeout"
    /\ UNCHANGED <<isBlocked, unblockCancel, timers, reqs, jobs, jobQueue, workers,
                   cleanupLoop>>
    /\ UNCHANGED <<helper, graphVars, execVars, jobVars>>

\* Shutdown: m.cleanupWg.Wait() returns, and Shutdown returns nil.
ShutdownReturn ==
    /\ shutdown \in {"done", "timeout"}
    /\ cleanupLoop = "exited"
    /\ shutdown' = IF shutdown = "done" THEN "returned" ELSE "returned on timeout"
    /\ UNCHANGED <<isBlocked, unblockCancel, timers, reqs, jobs, jobQueue, workers,
                   cleanupLoop>>
    /\ UNCHANGED <<helper, graphVars, execVars, jobVars>>

\* cleanupLoop: the select takes the case of the done context and the
\* goroutine returns (cleanupWg.Done).
CleanupLoopExit ==
    /\ cleanupLoop = "loop"
    /\ ManagerDone
    /\ cleanupLoop' = "exited"
    /\ UNCHANGED <<isBlocked, unblockCancel, timers, reqs, jobs, jobQueue, workers,
                   shutdown>>
    /\ UNCHANGED <<helper, graphVars, execVars, jobVars>>

\* MinJobRetention, in hours.
MinJobRetention == 1

MaxJobCount == 1000

\* The clock stops at MaxNow hours.
MaxNow == 2

\* The hours between two readings of the clock.
TickHours == 2

Min(a, b) == IF a < b THEN a ELSE b

\* Job.Age as cleanup computes it: now.Sub(job.CreatedAt).
AgeAt(hp, js, id, t) == t - hp[js[id]].CreatedAt

\* The test of the status dropped: every job older than MinJobRetention.
Eligible_anyStatus(js, hp, t) ==
    {id \in DOMAIN js : AgeAt(hp, js, id, t) > MinJobRetention}

\* cleanup, lines 306-315: the registered jobs that are Completed or Failed
\* and older than MinJobRetention.
Eligible(js, hp, t) ==
    {id \in DOMAIN js :
        /\ hp[js[id]].Status \in {"completed", "failed"}
        /\ AgeAt(hp, js, id, t) > MinJobRetention}

Swap(e, i, j) == [e EXCEPT ![i] = e[j], ![j] = e[i]]

RECURSIVE SortPass(_, _, _, _, _, _)
\* cleanup, lines 326-330: the inner loop of the sort, from j on.
SortPass(e, hp, js, t, i, j) ==
    IF j > Len(e) THEN e
    ELSE SortPass(IF AgeAt(hp, js, e[j], t) > AgeAt(hp, js, e[i], t)
                  THEN Swap(e, i, j) ELSE e,
                  hp, js, t, i, j + 1)

\* The eligible jobs left in the order of the map.
SortOldestFirst_unsorted(e, hp, js, t, i) == e

RECURSIVE SortOldestFirst(_, _, _, _, _)
\* cleanup, lines 325-331: the outer loop of the sort, from i on.
SortOldestFirst(e, hp, js, t, i) ==
    IF i > Len(e) THEN e
    ELSE SortOldestFirst(SortPass(e, hp, js, t, i, i + 1), hp, js, t, i + 1)

\* delete(m.jobs, id) for every id of ids.
Without(js, ids) == [id \in DOMAIN js \ ids |-> js[id]]

\* The eviction stops after one job.
EvictOldest_onlyOne(js, sorted, total) ==
    Without(js, {sorted[i] : i \in 1..Min(1, Len(sorted))})

\* cleanup, lines 333-343: the first toRemove of the sorted eligible jobs
\* are deleted, toRemove capped by their number.
EvictOldest(js, sorted, total) ==
    Without(js, {sorted[i] : i \in 1..Min(total - MaxJobCount, Len(sorted))})

\* cleanup with the eligible jobs collected in map order `eligible`.
cleanup(js, hp, t, eligible) ==
    IF Cardinality(DOMAIN js) = 0 THEN js
    ELSE IF Len(eligible) = 0 /\ Cardinality(DOMAIN js) <= MaxJobCount THEN js
    ELSE IF Cardinality(DOMAIN js) > MaxJobCount
         THEN EvictOldest(js, SortOldestFirst(eligible, hp, js, t, 1),
                          Cardinality(DOMAIN js))
         ELSE Without(js, Range(eligible))

\* cleanupLoop: the ticker fires and cleanup runs under jobsMu.
Cleanup ==
    /\ cleanupLoop = "loop"
    /\ \E eligible \in Perms(Eligible(jobs, heap, now)) :
          jobs' = cleanup(jobs, heap, now, eligible)
    /\ UNCHANGED <<isBlocked, unblockCancel, timers, reqs, jobQueue, workers, shutdown, cleanupLoop>>
    /\ UNCHANGED <<helper, graphVars, execVars, jobVars>>

\* Manager.Delete of a registered job; of another id it returns an error
\* and changes nothing.
Delete(id) ==
    /\ id \in DOMAIN jobs
    /\ jobs' = Without(jobs, {id})
    /\ UNCHANGED <<isBlocked, unblockCancel, timers, reqs, jobQueue, workers, shutdown, cleanupLoop>>
    /\ UNCHANGED <<helper, graphVars, execVars, jobVars>>

\* The most jobs Get and List return in a run.
MaxCopies == 2

\* The most backing arrays a run allocates.
MaxArrays == 12

\* Manager.Get of a registered id returns job.Clone(); of another id it
\* returns an error.
ManagerGet(id) ==
    /\ id \in DOMAIN jobs
    /\ Len(copies) < MaxCopies
    /\ Len(arrays) < MaxArrays
    /\ copies' = Append(copies, Clone(arrays, heap[jobs[id]]).job)
    /\ arrays' = Clone(arrays, heap[jobs[id]]).arrays
    /\ UNCHANGED <<isBlocked, unblockCancel, timers, reqs, jobs, jobQueue, workers,
                   shutdown, cleanupLoop>>
    /\ UNCHANGED <<helper, graphVars, execVars, heap, now>>

\* Manager.List returns the clones of all registered jobs.
ManagerList ==
    /\ DOMAIN jobs # {}
    /\ Len(copies) + Cardinality(DOMAIN jobs) <= MaxCopies
    /\ Len(arrays) < MaxArrays
    /\ \E order \in Perms(DOMAIN jobs) :
          /\ copies' = CloneAll(arrays, heap, [i \in DOMAIN order |-> jobs[order[i]]],
                                copies).jobs
          /\ arrays' = CloneAll(arrays, heap, [i \in DOMAIN order |-> jobs[order[i]]],
                                copies).arrays
    /\ UNCHANGED <<isBlocked, unblockCancel, timers, reqs, jobs, jobQueue, workers,
                   shutdown, cleanupLoop>>
    /\ UNCHANGED <<helper, graphVars, execVars, heap, now>>

RECURSIVE OverwriteFrom(_, _, _)
\* Every element of the slice fields of job c, from the i-th field on, set
\* to "x" in the backing arrays.
OverwriteFrom(arrs, c, i) ==
    IF i > Len(SliceFields) THEN arrs
    ELSE OverwriteFrom(
            IF c[SliceFields[i]].len = 0 THEN arrs
            ELSE [arrs EXCEPT ![c[SliceFields[i]].arr] =
                     [k \in DOMAIN @ |-> IF k <= c[SliceFields[i]].len THEN "x" ELSE @[k]]],
            c, i + 1)

\* The caller writes to a returned job: every scalar field and every
\* element of every slice, copy.Field[i] = "x".
CopyOverwrite(c) ==
    /\ copies[c].Error # "x"
    /\ arrays' = OverwriteFrom(arrays, copies[c], 1)
    /\ copies' = [copies EXCEPT ![c].Status = "x", ![c].Error = "x", ![c].Type = "x",
                                ![c].CreatedAt = now + 1]
    /\ UNCHANGED <<isBlocked, unblockCancel, timers, reqs, jobs, jobQueue, workers,
                   shutdown, cleanupLoop>>
    /\ UNCHANGED <<helper, graphVars, execVars, heap, now>>

\* The caller appends to a slice of a returned job, copy.Started =
\* append(copy.Started, "y"): the slice is full, so append moves it to a
\* fresh array.
CopyAppend(c) ==
    /\ Len(arrays) < MaxArrays
    /\ copies[c].Started.len < 2
    /\ arrays' = Append(arrays, Append(Deref(arrays, copies[c].Started), "y"))
    /\ copies' = [copies EXCEPT ![c].Started = [arr |-> Len(arrays) + 1,
                                               len |-> copies[c].Started.len + 1]]
    /\ UNCHANGED <<isBlocked, unblockCancel, timers, reqs, jobs, jobQueue, workers,
                   shutdown, cleanupLoop>>
    /\ UNCHANGED <<helper, graphVars, execVars, heap, now>>

\* Time passes: the clock is read again TickHours later.
Tick ==
    /\ now < MaxNow
    /\ now' = now + TickHours
    /\ UNCHANGED <<isBlocked, unblockCancel, timers, reqs, jobs, jobQueue, workers,
                   shutdown, cleanupLoop>>
    /\ UNCHANGED <<helper, graphVars, execVars, heap, arrays, copies>>

\* NewManager and NewServer: an empty registry and queue, the workers
\* started, the flag clear.
ApiInit ==
    /\ labels = PlainLabels([c \in Containers |-> <<>>], FALSE)
    /\ analysis = None
    /\ ExecIdle
    /\ isBlocked = FALSE
    /\ unblockCancel = 0
    /\ timers = EmptyMap
    /\ reqs = [r \in Requests |-> NoRequest]
    /\ jobs = EmptyMap
    /\ jobQueue = <<>>
    /\ workers = [busy |-> {}, results |-> {}, stopped |-> 0]
    /\ shutdown = "none"
    /\ cleanupLoop = "loop"
    /\ helper = [pc |-> "none"]
    /\ heap = EmptyMap
    /\ now = 0
    /\ arrays = <<>>
    /\ copies = <<>>

ApiNext ==
    \/ \E route \in {"start", "stop", "block", "unblock", "ping"} : Router(route, 0)
    \/ \E id \in Requests : Router("job_status", id)
    \/ \E r \in DOMAIN reqs : ReadBlocked(r)
    \/ \E r \in DOMAIN reqs : RespondBlocked(r)
    \/ \E r \in DOMAIN reqs : SubmitCheck(r)
    \/ \E r \in DOMAIN reqs : SubmitRegister(r)
    \/ \E r \in DOMAIN reqs : SubmitSend(r)
    \/ \E r \in DOMAIN reqs : HandleGetJobStatus(r)
    \/ \E r \in DOMAIN reqs : HandleHealth(r)
    \/ \E r \in DOMAIN reqs : HandleBlock(r)
    \/ \E r \in DOMAIN reqs : HandleUnblock(r)
    \/ \E t \in DOMAIN timers : AutoUnblockFire(t)
    \/ \E t \in DOMAIN timers : AutoUnblock(t)
    \/ \E t \in DOMAIN timers : AutoUnblockCancelled(t)
    \/ WorkerReceive
    \/ \E id \in workers.busy : WorkerFinish(id)
    \/ \E id \in workers.busy : WorkerSetResults(id)
    \/ WorkerStop
    \/ ShutdownClose
    \/ ShutdownCancel

SpecApi == ApiInit /\ [][ApiNext]_vars

\* The server with /start and /job_status requests only, with the manager's
\* Delete and cleanup and with time passing.
JobsNext ==
    \/ Router("start", 0)
    \/ \E id \in Requests : Router("job_status", id)
    \/ \E r \in DOMAIN reqs : ReadBlocked(r)
    \/ \E r \in DOMAIN reqs : SubmitCheck(r)
    \/ \E r \in DOMAIN reqs : SubmitRegister(r)
    \/ \E r \in DOMAIN reqs : SubmitSend(r)
    \/ \E r \in DOMAIN reqs : HandleGetJobStatus(r)
    \/ WorkerReceive
    \/ \E id \in workers.busy : WorkerFinish(id)
    \/ \E id \in workers.busy : WorkerSetResults(id)
    \/ WorkerStop
    \/ ShutdownClose
    \/ ShutdownCancel
    \/ Cleanup
    \/ \E id \in Requests : Delete(id)
    \/ Tick

SpecJobs == ApiInit /\ [][JobsNext]_vars

\* The manager from NewManager to the return of Shutdown: /start requests
\* are submitted and run while Shutdown goes on.
ShutdownNext ==
    \/ Router("start", 0)
    \/ \E r \in DOMAIN reqs : ReadBlocked(r)
    \/ \E r \in DOMAIN reqs : SubmitCheck(r)
    \/ \E r \in DOMAIN reqs : SubmitRegister(r)
    \/ \E r \in DOMAIN reqs : SubmitSend(r)
    \/ WorkerReceive
    \/ \E id \in workers.busy : WorkerFinish(id)
    \/ \E id \in workers.busy : WorkerSetResults(id)
    \/ WorkerStop
    \/ ShutdownClose
    \/ ShutdownCancel
    \/ ShutdownWait
    \/ ShutdownReturn
    \/ Cleanup
    \/ CleanupLoopExit

SpecShutdown == ApiInit /\ [][ShutdownNext]_vars

\* The job in the hands of a worker goes on: the executor call returns and
\* processStartJob/processStopJob finish.
WorkerStep(id) ==
    /\ id \in workers.busy
    /\ WorkerSetResults(id) \/ WorkerFinish(id)

\* SpecShutdown with workers that are scheduled and executor calls that
\* return.
SpecShutdownFair ==
    /\ SpecShutdown
    /\ WF_vars(WorkerReceive)
    /\ \A id \in Requests : WF_vars(WorkerStep(id))

\* Registries for cleanup: a block of like jobs too young to be eligible,
\* and up to MaxOld jobs of any status and age.
MaxOld == 2

\* The hour at which cleanup runs on them.
CleanupNow == 3

BlockSizes == {0, MaxJobCount - 1, MaxJobCount + 1}

BlockKinds ==
    {[Status |-> "pending", CreatedAt |-> CleanupNow],
     [Status |-> "completed", CreatedAt |-> CleanupNow - MinJobRetention]}

OldKinds ==
    [Status : {"pending", "running", "completed", "failed"},
     CreatedAt : 0..(CleanupNow - MinJobRetention)]

\* The job object of a kind: a job built at CreatedAt and brought to Status.
JobOfKind(k) ==
    [NewJobAt("start", k.CreatedAt) EXCEPT
        !.Status = k.Status,
        !.Error = IF k.Status = "failed" THEN "error" ELSE ""]

JobsOfRegistry(n, block, olds) ==
    [i \in 1..(n + Len(olds)) |-> IF i <= n THEN JobOfKind(block) ELSE JobOfKind(olds[i - n])]

\* A manager whose registry holds such jobs; the queue, the workers and the
\* server play no part in cleanup and are left idle.
CleanupInit ==
    /\ labels = PlainLabels([c \in Containers |-> <<>>], FALSE)
    /\ analysis = None
    /\ ExecIdle
    /\ isBlocked = FALSE
    /\ unblockCancel = 0
    /\ timers = EmptyMap
    /\ reqs = <<>>
    /\ jobQueue = <<>>
    /\ workers = [busy |-> {}, results |-> {}, stopped |-> 0]
    /\ shutdown = "none"
    /\ cleanupLoop = "loop"
    /\ helper = [pc |-> "none"]
    /\ now = CleanupNow
    /\ arrays = <<>>
    /\ copies = <<>>
    /\ \E n \in BlockSizes, block \in BlockKinds, k \in 0..MaxOld :
          \E olds \in [1..k -> OldKinds] :
             /\ heap = JobsOfRegistry(n, block, olds)
             /\ jobs = [i \in 1..(n + k) |-> i]

SpecCleanup == CleanupInit /\ [][Cleanup]_vars

\* The ignore lists of the queued job of CloneInit.
CloneIgnores == {<<>>, <<"a">>}

\* A stop job that a worker has completed, its lists stopped and failed in
\* the arrays at addresses k and k + 1.
CompletedStopJob(k) ==
    [NewJobAt("stop", 0) EXCEPT !.Status = "completed",
                                !.Stopped = [arr |-> k, len |-> 1],
                                !.Failed = [arr |-> k + 1, len |-> 1]]

\* A manager with a start job registered and queued, Pending, its ignore
\* list in an array of its own, and with or without a stop job completed
\* before.
CloneInit ==
    /\ labels = PlainLabels([c \in Containers |-> <<>>], FALSE)
    /\ analysis = None
    /\ ExecIdle
    /\ isBlocked = FALSE
    /\ unblockCancel = 0
    /\ timers = EmptyMap
    /\ reqs = <<>>
    /\ workers = [busy |-> {}, results |-> {}, stopped |-> 0]
    /\ shutdown = "none"
    /\ cleanupLoop = "loop"
    /\ helper = [pc |-> "none"]
    /\ now = 0
    /\ copies = <<>>
    /\ jobQueue = <<1>>
    /\ \E n \in 1..2, ig \in CloneIgnores :
          /\ jobs = [i \in 1..n |-> i]
          /\ arrays = WithArray(<<>>, ig) \o
                      (IF n = 2 THEN << <<"a">>, <<"b">> >> ELSE <<>>)
          /\ heap = [i \in 1..n |->
                       IF i = 1
                       THEN [NewJobAt("start", 0) EXCEPT !.Ignore = SliceOf(<<>>, ig)]
                       ELSE CompletedStopJob(Len(ig) + 1)]

\* The workers run the jobs while callers get, list and write to what
\* they got.
CloneNext ==
    \/ WorkerReceive
    \/ \E id \in workers.busy : WorkerSetResults(id)
    \/ \E id \in workers.busy : WorkerFinish(id)
    \/ \E id \in DOMAIN jobs : ManagerGet(id)
    \/ ManagerList
    \/ \E c \in DOMAIN copies : CopyOverwrite(c)
    \/ \E c \in DOMAIN copies : CopyAppend(c)

SpecClone == CloneInit /\ [][CloneNext]_vars

(***************************************************************************)
(* The helper: runHelper and the client it drives.  Every request of the   *)
(* helper reaches the server and is answered within the client's timeout.  *)
(***************************************************************************)
\* The paths Router registers, by the name used for them in reqs.
Routes == {"start", "stop", "ping", "block", "unblock", "job_status"}

\* A path Router does not register: the router answers 404.
HandleNotFound(r) ==
    /\ reqs[r].pc = "new"
    /\ reqs[r].route \notin Routes
    /\ Respond(r, 404, "404 page not found")
    /\ UNCHANGED <<isBlocked, unblockCancel, timers, jobs, jobQueue, workers, shutdown, cleanupLoop>>
    /\ UNCHANGED <<helper, graphVars, execVars, jobVars>>

\* The JSON object the server wrote as the body of response r: JobResponse
\* {job_id}, the status of /job_status and /ping, the message of /block and
\* /unblock, ErrorResponse {error}.
ResponseJSON(r) ==
    IF reqs[r].code = 200 /\ reqs[r].route \in {"start", "stop"}
    THEN [job_id |-> r]
    ELSE IF reqs[r].route \in {"ping", "job_status"}
    THEN [status |-> reqs[r].body]
    ELSE IF reqs[r].code = 200
    THEN [message |-> reqs[r].body]
    ELSE [error |-> reqs[r].body]

\* json.Decode into a struct field tagged name: the value of that key, or
\* the field's zero value when the object has no such key.
DecodeField(obj, name, zero) == IF name \in DOMAIN obj THEN obj[name] ELSE zero

\* resp.StatusCode < 200 || resp.StatusCode >= 300 in post and get.
StatusOK(code) == 200 <= code /\ code < 300

\* The helper process when runHelper begins to wait for the server.
HelperStarted ==
    [pc |-> "ready", req |-> 0, jobID |-> 0, notify |-> FALSE, sigChan |-> 0,
     err |-> ""]

\* The path the helper requests at each place of runHelper: Health,
\* StartContainers, StopContainers, and GetJob ("/jobs/%s") in WaitForJob.
HelperRoute(pc) ==
    IF pc = "ready" THEN "ping"
    ELSE IF pc = "start" THEN "start"
    ELSE IF pc = "stop" THEN "stop"
    ELSE "jobs"

\* runHelper returns err (the empty string: nil) and the process exits.
HelperExit(err) == helper' = [helper EXCEPT !.pc = "exited", !.req = 0, !.err = err]

\* The client sends the request of the helper's place in runHelper: a tick
\* of WaitForServerReady or WaitForJob, or a post.
HelperSend ==
    /\ helper.pc \in {"ready", "start", "waitStart", "stop", "waitStop"}
    /\ helper.req = 0
    /\ \E r \in Requests :
          /\ reqs[r].pc = "none"
          /\ \A q \in 1..(r - 1) : reqs[q].pc # "none"
          /\ reqs' = [reqs EXCEPT ![r] =
                        [NoRequest EXCEPT
                            !.route = HelperRoute(helper.pc),
                            !.pc = "new",
                            !.arg = IF helper.pc \in {"waitStart", "waitStop"}
                                    THEN helper.jobID ELSE 0]]
          /\ helper' = [helper EXCEPT !.req = r]
    /\ UNCHANGED <<isBlocked, unblockCancel, timers, jobs, jobQueue, workers, shutdown, cleanupLoop>>
    /\ UNCHANGED <<graphVars, execVars, jobVars>>

\* The client gets the response and runHelper goes on: an error of post or
\* get (a status outside 2xx) ends runHelper with that error, but for
\* Health, which is retried; a JobResponse is decoded for its "id", a Job
\* for its "status".
HelperReceive ==
    /\ helper.pc \in {"ready", "start", "waitStart", "stop", "waitStop"}
    /\ helper.req # 0
    /\ reqs[helper.req].pc = "responded"
    /\ LET ok == StatusOK(reqs[helper.req].code)
           json == ResponseJSON(helper.req)
           status == DecodeField(json, "status", "")
       IN  IF helper.pc = "ready"
           THEN helper' = [helper EXCEPT
                              !.req = 0,
                              !.pc = IF ok /\ status = "healthy" THEN "delay" ELSE "ready"]
           ELSE IF ~ok
           THEN HelperExit(IF helper.pc = "start" THEN "failed to submit start job"
                           ELSE IF helper.pc = "waitStart"
                           THEN "failed to wait for start job"
                           ELSE "request failed")
           ELSE IF helper.pc \in {"start", "stop"}
           THEN helper' = [helper EXCEPT
                              !.req = 0,
                              !.jobID = DecodeField(json, "id", 0),
                              !.pc = IF helper.pc = "start" THEN "waitStart"
                                     ELSE "waitStop"]
           ELSE IF status \notin {"completed", "failed"}
           THEN helper' = [helper EXCEPT !.req = 0]
           ELSE IF helper.pc = "waitStart"
           THEN helper' = [helper EXCEPT !.req = 0, !.pc = "running", !.notify = TRUE]
           ELSE HelperExit("")
    /\ UNCHANGED <<isBlocked, unblockCancel, timers, reqs, jobs, jobQueue, workers,
                   shutdown, cleanupLoop>>
    /\ UNCHANGED <<graphVars, execVars, jobVars>>

\* The steps of runHelper that wait for no response: the startup delay has
\* passed, or a signal is received from sigChan.
HelperLocal ==
    /\ \/ /\ helper.pc = "delay"
          /\ helper' = [helper EXCEPT !.pc = "start"]
       \/ /\ helper.pc = "running"
          /\ helper.sigChan > 0
          /\ helper' = [helper EXCEPT !.pc = "stop", !.sigChan = 0]
    /\ UNCHANGED <<isBlocked, unblockCancel, timers, reqs, jobs, jobQueue, workers,
                   shutdown, cleanupLoop>>
    /\ UNCHANGED <<graphVars, execVars, jobVars>>

\* SIGINT or SIGTERM is sent to the helper: once signal.Notify has run it
\* is put into sigChan; before that the process is terminated.
Signal ==
    /\ helper.pc \notin {"none", "exited"}
    /\ helper.sigChan = 0
    /\ IF helper.notify
       THEN helper' = [helper EXCEPT !.sigChan = 1]
       ELSE HelperExit("signal")
    /\ UNCHANGED <<isBlocked, unblockCancel, timers, reqs, jobs, jobQueue, workers,
                   shutdown, cleanupLoop>>
    /\ UNCHANGED <<graphVars, execVars, jobVars>>

\* The server and the job manager started, and the helper beside them.
HelperInit ==
    /\ labels = PlainLabels([c \in Containers |-> <<>>], FALSE)
    /\ analysis = None
    /\ ExecIdle
    /\ isBlocked = FALSE
    /\ unblockCancel = 0
    /\ timers = EmptyMap
    /\ reqs = [r \in Requests |-> NoRequest]
    /\ jobs = EmptyMap
    /\ jobQueue = <<>>
    /\ workers = [busy |-> {}, results |-> {}, stopped |-> 0]
    /\ shutdown = "none"
    /\ cleanupLoop = "loop"
    /\ heap = EmptyMap
    /\ now = 0
    /\ arrays = <<>>
    /\ copies = <<>>
    /\ helper = HelperStarted

\* The helper's requests and an operator's /block and /unblock requests
\* are served while the workers run the jobs.
HelperNext ==
    \/ HelperSend
    \/ HelperReceive
    \/ HelperLocal
    \/ Signal
    \/ \E route \in {"block", "unblock"} : Router(route, 0)
    \/ \E r \in DOMAIN reqs : ReadBlocked(r)
    \/ \E r \in DOMAIN reqs : RespondBlocked(r)
    \/ \E r \in DOMAIN reqs : SubmitCheck(r)
    \/ \E r \in DOMAIN reqs : SubmitRegister(r)
    \/ \E r \in DOMAIN reqs : SubmitSend(r)
    \/ \E r \in DOMAIN reqs : HandleHealth(r)
    \/ \E r \in DOMAIN reqs : HandleNotFound(r)
    \/ \E r \in DOMAIN reqs : HandleBlock(r)
    \/ \E r \in DOMAIN reqs : HandleUnblock(r)
    \/ \E t \in DOMAIN timers : AutoUnblockFire(t)
    \/ \E t \in DOMAIN timers : AutoUnblock(t)
    \/ \E t \in DOMAIN timers : AutoUnblockCancelled(t)
    \/ WorkerReceive
    \/ \E id \in workers.busy : WorkerFinish(id)
    \/ \E id \in workers.busy : WorkerSetResults(id)

SpecHelper == HelperInit /\ [][HelperNext]_vars

(***************************************************************************)
(* The query string of POST /start and POST /stop: one request whose URL   *)
(* has up to MaxParams ignore parameters of up to MaxParamLen characters.  *)
(***************************************************************************)
MaxParams == 2

MaxParamLen == 3

\* The characters in use: two letters, the separator and white space.
QueryChars == {"a", "b", ",", " "}

RECURSIVE Strings(_)
\* The strings of at most k characters.
Strings(k) ==
    IF k = 0 THEN {<<>>}
    ELSE Strings(k - 1) \cup {Append(s, ch) : s \in Strings(k - 1), ch \in QueryChars}

RECURSIVE Queries(_)
\* The values r.URL.Query()["ignore"] can have with at most k parameters.
Queries(k) ==
    IF k = 0 THEN {<<>>}
    ELSE Queries(k - 1)
         \cup {Append(q, s) : q \in Queries(k - 1), s \in Strings(MaxParamLen)}

\* The router hands the handler a request with ignore parameters.
RouterQuery(route) ==
    /\ \A q \in Requests : reqs[q].pc = "none"
    /\ \E query \in Queries(MaxParams) :
          reqs' = [reqs EXCEPT ![1] = [NoRequest EXCEPT !.route = route, !.pc = "new",
                                                        !.query = query]]
    /\ UNCHANGED <<isBlocked, unblockCancel, timers, jobs, jobQueue, workers, shutdown, cleanupLoop>>
    /\ UNCHANGED <<helper, graphVars, execVars, jobVars>>

QueryNext ==
    \/ \E route \in {"start", "stop"} : RouterQuery(route)
    \/ \E r \in Requests : ReadBlocked(r)
    \/ \E r \in Requests : SubmitCheck(r)
    \/ \E r \in Requests : SubmitRegister(r)
    \/ \E r \in Requests : SubmitSend(r)

SpecQuery == ApiInit /\ [][QueryNext]_vars

(***************************************************************************)
(* internal/jobs/types.go: the time stamps of a Job.  A time.Time is the   *)
(* empty sequence (the zero time) or holds one reading of the clock.       *)
(***************************************************************************)
MaxClock == 3

\* NewJob with its time stamps: CreatedAt is time.Now(), StartedAt and
\* EndedAt are zero.
NewTimedJob(jobType, t) ==
    [Type |-> jobType, Status |-> "pending", Error |-> "",
     CreatedAt |-> <<t>>, StartedAt |-> <<>>, EndedAt |-> <<>>]

\* SetStatus that stamps at every call.
StampStatus_overwrites(j, status, t) ==
    IF status = "running" THEN [j EXCEPT !.StartedAt = <<t>>]
    ELSE IF status \in {"completed", "failed"} THEN [j EXCEPT !.EndedAt = <<t>>]
    ELSE j

\* The switch of SetStatus, after j.Status = status: StartedAt is set on
\* Running and EndedAt on Completed or Failed, each only while it is zero.
StampStatus(j, status, t) ==
    IF status = "running"
    THEN IF j.StartedAt = <<>> THEN [j EXCEPT !.StartedAt = <<t>>] ELSE j
    ELSE IF status \in {"completed", "failed"}
    THEN IF j.EndedAt = <<>> THEN [j EXCEPT !.EndedAt = <<t>>] ELSE j
    ELSE j

\* The end of SetError: EndedAt is set while it is zero.
StampError(j, t) == IF j.EndedAt = <<>> THEN [j EXCEPT !.EndedAt = <<t>>] ELSE j

\* Job 1 is in the hands of a caller of the Job methods, job 2 is registered
\* with the manager and queued.
TimesInit ==
    /\ labels = PlainLabels([c \in Containers |-> <<>>], FALSE)
    /\ analysis = None
    /\ ExecIdle
    /\ isBlocked = FALSE
    /\ unblockCancel = 0
    /\ timers = EmptyMap
    /\ reqs = <<>>
    /\ jobQueue = <<2>>
    /\ workers = [busy |-> {}, results |-> {}, stopped |-> 0]
    /\ shutdown = "none"
    /\ cleanupLoop = "loop"
    /\ helper = [pc |-> "none"]
    /\ now = 0
    /\ heap = <<NewTimedJob("start", 0), NewTimedJob("start", 0)>>
    /\ jobs = Put(EmptyMap, 2, 2)
    /\ arrays = <<>>
    /\ copies = <<>>

\* The clock goes on.
ClockTick ==
    /\ now < MaxClock
    /\ now' = now + 1
    /\ UNCHANGED <<isBlocked, unblockCancel, timers, reqs, jobs, jobQueue, workers,
                   shutdown, cleanupLoop>>
    /\ UNCHANGED <<helper, graphVars, execVars, heap, arrays, copies>>

\* job.SetStatus(status) called on a job that is not the manager's.
CallSetStatus(id, status) ==
    /\ id \notin DOMAIN jobs
    /\ heap' = [heap EXCEPT ![id] = StampStatus(SetStatus(@, status), status, now)]
    /\ UNCHANGED <<isBlocked, unblockCancel, timers, reqs, jobs, jobQueue, workers,
                   shutdown, cleanupLoop>>
    /\ UNCHANGED <<helper, graphVars, execVars, now, arrays, copies>>

\* job.SetError(err) called on a job that is not the manager's.
CallSetError(id) ==
    /\ id \notin DOMAIN jobs
    /\ heap' = [heap EXCEPT ![id] = StampError(SetError(@, "error"), now)]
    /\ UNCHANGED <<isBlocked, unblockCancel, timers, reqs, jobs, jobQueue, workers,
                   shutdown, cleanupLoop>>
    /\ UNCHANGED <<helper, graphVars, execVars, now, arrays, copies>>

\* worker and processJob: a job is received from the queue and set Running.
ProcessJobBegin ==
    /\ jobQueue # <<>>
    /\ Cardinality(workers.busy) < DefaultWorkerCount
    /\ jobQueue' = Tail(jobQueue)
    /\ workers' = [workers EXCEPT !.busy = @ \cup {Head(jobQueue)}]
    /\ heap' = [heap EXCEPT
                  ![Head(jobQueue)] = StampStatus(SetStatus(@, "running"), "running", now)]
    /\ UNCHANGED <<isBlocked, unblockCancel, timers, reqs, jobs, shutdown, cleanupLoop>>
    /\ UNCHANGED <<helper, graphVars, execVars, now, arrays, copies>>

\* processStartJob/processStopJob end: SetError, or SetStatus(Completed).
ProcessJobEnd(id) ==
    /\ id \in workers.busy
    /\ \/ heap' = [heap EXCEPT
                      ![id] = StampStatus(SetStatus(@, "completed"), "completed", now)]
       \/ heap' = [heap EXCEPT ![id] = StampError(SetError(@, "error"), now)]
    /\ workers' = [workers EXCEPT !.busy = @ \ {id}]
    /\ UNCHANGED <<isBlocked, unblockCancel, timers, reqs, jobs, jobQueue, shutdown, cleanupLoop>>
    /\ UNCHANGED <<helper, graphVars, execVars, now, arrays, copies>>

TimesNext ==
    \/ ClockTick
    \/ \E id \in DOMAIN heap, status \in {"pending", "running", "completed", "failed"} :
          CallSetStatus(id, status)
    \/ \E id \in DOMAIN heap : CallSetError(id)
    \/ ProcessJobBegin
    \/ \E id \in DOMAIN heap : ProcessJobEnd(id)

SpecTimes == TimesInit /\ [][TimesNext]_vars

\* The auto-unblock goroutine of block t goes on: its timer fires when the
\* duration has elapsed and the goroutine gets blockMutex.
AutoUnblockStep(t) ==
    /\ t \in DOMAIN timers
    /\ AutoUnblockFire(t) \/ AutoUnblock(t) \/ AutoUnblockCancelled(t)

\* SpecApi with time passing: no timer waits forever and no goroutine is
\* starved.
SpecApiFair == SpecApi /\ \A t \in Requests : WF_vars(AutoUnblockStep(t))

(***************************************************************************)
(* Reference notions the claims are stated with.                           *)
(***************************************************************************)
RealNodes(g) == {n \in DOMAIN g : ~g[n].IsPlaceholder}

RealParents(g, n) == {p \in Range(g[n].Parents) : ~g[p].IsPlaceholder}

RealChildren(g, n) == {c \in Range(g[n].Children) : ~g[c].IsPlaceholder}

\* Sequences of distinct nodes of S in which each node is a parent of the next.
RECURSIVE ChainsFrom(_, _, _)
ChainsFrom(g, S, ch) ==
    {ch} \cup UNION {ChainsFrom(g, S, Append(ch, c)) :
                        c \in {x \in S \ Range(ch) : ch[Len(ch)] \in Range(g[x].Parents)}}

Chains(g, S) == UNION {ChainsFrom(g, S, <<n>>) : n \in S}

\* The graph has a directed dependency cycle: some chain closes on itself.
HasDirectedCycle(g) ==
    \E ch \in Chains(g, DOMAIN g) : ch[Len(ch)] \in Range(g[ch[1]].Parents)

\* Number of edges of the longest chain of non-placeholder nodes ending at n.
LongestChain(g, n) ==
    LET lens == {Len(ch) - 1 : ch \in {x \in Chains(g, RealNodes(g)) : x[Len(x)] = n}}
    IN  CHOOSE l \in lens : \A k \in lens : k <= l

\* Nodes linked by a path of parent/child edges between non-placeholder nodes.
RECURSIVE ConnectedTo(_, _)
ConnectedTo(g, S) ==
    LET T == S \cup UNION {RealParents(g, n) \cup RealChildren(g, n) : n \in S}
    IN  IF T = S THEN S ELSE ConnectedTo(g, T)

\* Index of the batch of `batches` that holds n (0 when none does).
BatchOf(batches, n) ==
    IF \E i \in DOMAIN batches : n \in Range(batches[i])
    THEN CHOOSE i \in DOMAIN batches : n \in Range(batches[i])
    ELSE 0

NodesOf(batches) == UNION {Range(batches[i]) : i \in DOMAIN batches}

\* A batch list as an ordered list of sets.
AsSets(batches) == [i \in DOMAIN batches |-> Range(batches[i])]

\* The batch lists an operation returned: one per component.
BatchLists(a) ==
    IF a.op \in {"GetConnectedComponents", "GetConnectedComponentsForShutdown"}
    THEN Range(a.res.components)
    ELSE IF a.op \in {"GetStartupBatches", "GetShutdownBatches"} /\ a.res.err = ""
    THEN {a.res.batches}
    ELSE {}

StartupOps == {"GetConnectedComponents", "GetStartupBatches"}

ComponentOps == {"GetConnectedComponents", "GetConnectedComponentsForShutdown"}

TasksOfBatch(c, b) == {t \in DOMAIN task : t[1] = c /\ t[2] = b}

\* C1: within a call, no node of batch i+1 of a component has begun before
\* every node of batch i of that component has produced its outcome.
C1_BatchBarrier ==
    \A c \in DOMAIN components : \A b \in DOMAIN components[c] :
        (\E t \in TasksOfBatch(c, b + 1) : task[t].pc # "idle") =>
            \A t \in TasksOfBatch(c, b) : task[t].pc = "done"

\* A node of a second batch is at its daemon start/stop call, after a first
\* batch of two nodes.
C1_Witness ==
    \E t \in DOMAIN task :
        /\ t[2] = 2
        /\ task[t].pc = "act"
        /\ Cardinality(TasksOfBatch(t[1], 1)) = 2

\* The label sets of the executor runs whose graph has a directed cycle.
CyclicExecLabels == {l \in ExecLabels : HasDirectedCycle(Build(ContainerList(l)))}

\* The witness w ends with a closed walk along parent -> child edges of g.
NamesCycle(g, w) ==
    /\ Len(w) >= 2
    /\ \E i \in 1..(Len(w) - 1) :
          /\ w[i] = w[Len(w)]
          /\ \A j \in i..(Len(w) - 1) : w[j] \in Range(g[w[j + 1]].Parents)

StartStopCalls == {call \in daemonCalls : call[1] \in {"start", "stop"}}

C7_AtMostOnce ==
    \A n \in DOMAIN invoked :
        /\ invoked[n] <= 1
        /\ graph[n].IsPlaceholder => invoked[n] = 0

\* A call has returned in which a node named twice in a depends_on list was
\* started or stopped.
C7_Witness ==
    /\ xpc = "returned"
    /\ \E n, c \in DOMAIN graph :
          /\ invoked[n] = 1
          /\ \E i, j \in DOMAIN graph[c].Parents :
                i # j /\ graph[c].Parents[i] = n /\ graph[c].Parents[j] = n

Returned ==
    xpc \in {"returned", "results", "done"} /\ result # None /\ result.err = NoError

\* C9: when a call returns a result every node goroutine of every batch of
\* every component has delivered its outcome, which is in the result.
C9_ReturnAfterAll ==
    Returned =>
        /\ \A t \in DOMAIN task : task[t].pc = "done"
        /\ \A c \in DOMAIN comp : comp[c].phase = "exited"
        /\ \A c \in DOMAIN batchChan : batchChan[c] = <<>>
        /\ resultChan = <<>>
        /\ Len(result.res.acted) + Len(result.res.skipped) + Len(result.res.failed)
              = Cardinality(DOMAIN task)

\* A call on three components has returned its result.
C9_Witness ==
    /\ xpc = "returned"
    /\ result.err = NoError
    /\ Len(components) = 3

IgnoredNodes == Range(job.Ignore) \cap DOMAIN graph

C10_BlockedRejects ==
    \A r \in DOMAIN reqs :
        /\ (reqs[r].route \in {"start", "stop"} /\ reqs[r].blocked) =>
              /\ reqs[r].pc \in {"checked", "responded"}
              /\ reqs[r].pc = "responded" =>
                    reqs[r].code = 503 /\ reqs[r].body = "Operation blocked"
              /\ r \notin DOMAIN jobs
              /\ r \notin Range(jobQueue)
              /\ r \notin workers.busy
        /\ (reqs[r].route \in {"job_status", "block", "unblock", "ping"}
               /\ reqs[r].pc = "responded") =>
              /\ reqs[r].code = 200 \/ (reqs[r].route = "job_status" /\ reqs[r].code = 404)
              /\ reqs[r].body # "Operation blocked"

\* While the flag is true a /start or /stop was rejected and a /job_status
\* request was answered.
C10_Witness ==
    /\ isBlocked
    /\ \E r \in DOMAIN reqs :
          /\ reqs[r].route \in {"start", "stop"}
          /\ reqs[r].blocked
          /\ reqs[r].pc = "responded"
    /\ \E r \in DOMAIN reqs :
          /\ reqs[r].route = "job_status"
          /\ reqs[r].pc = "responded"
          /\ reqs[r].seen


(***************************************************************************)
(* C11: an accepted block whose own duration has not elapsed, and that no  *)
(* later /block or /unblock has replaced, keeps the flag set: the expiry   *)
(* of an earlier block never clears it.  A block's goroutine waits in its  *)
(* select, with its context not cancelled, from the moment HandleBlock     *)
(* accepted the block until its timer fires or a later HandleBlock or      *)
(* HandleUnblock cancels it.                                               *)
(***************************************************************************)
C11_BlockHeldUntilOwnExpiry ==
    \A t \in DOMAIN timers :
        (timers[t].pc = "select" /\ ~timers[t].cancelled) => isBlocked

\* A /block or /unblock request other than b that is still to be handled.
LaterBlockOrUnblock(b) ==
    \E r \in Requests \ {b} :
        reqs[r].route \in {"block", "unblock"} /\ reqs[r].pc = "new"

(***************************************************************************)
(* C12: once the block of request b is accepted and the flag is set, the   *)
(* flag becomes false again when the duration has elapsed, unless another  *)
(* /block or /unblock is issued meanwhile; and a /start or /stop whose     *)
(* handler read the flag as false is never answered 503.                   *)
(***************************************************************************)
C12_BlockExpires ==
    /\ \A b \in Requests :
          (b \in DOMAIN timers /\ isBlocked) ~> (~isBlocked \/ LaterBlockOrUnblock(b))
    /\ [](\A r \in Requests :
             (reqs[r].pc = "responded" /\ reqs[r].route \in {"start", "stop"}
              /\ ~reqs[r].blocked) => reqs[r].code # 503)

\* A block expired by its own timer, uncancelled, and a /start accepted
\* after it.
C12_Witness ==
    \E b, r \in Requests :
        /\ b \in DOMAIN timers
        /\ timers[b].pc = "done"
        /\ ~timers[b].cancelled
        /\ ~isBlocked
        /\ b < r
        /\ reqs[r].route = "start"
        /\ reqs[r].code = 200
        /\ \A q \in Requests \ {b} : reqs[q].route \notin {"block", "unblock"}

\* The moves of a job's status the claim allows.
StatusMoves ==
    {<<"pending", "running">>, <<"running", "completed">>, <<"running", "failed">>}

(***************************************************************************)
(* C13: a job is built Pending, and every step of the manager, its workers *)
(* and the handlers leaves the status of every job as it was or moves it   *)
(* Pending -> Running, Running -> Completed or Running -> Failed; so a     *)
(* Completed or Failed job never changes status, registered or deleted.    *)
(***************************************************************************)
C13_StatusForward ==
    [][/\ \A id \in DOMAIN heap :
             /\ id \in DOMAIN heap'
             /\ \/ heap'[id].Status = heap[id].Status
                \/ <<heap[id].Status, heap'[id].Status>> \in StatusMoves
       /\ \A id \in DOMAIN heap' \ DOMAIN heap : heap'[id].Status = "pending"]_vars

\* One job Completed, one Failed and deleted from the registry, one Running.
C13_Witness ==
    \E i, j, k \in DOMAIN heap :
        /\ heap[i].Status = "completed"
        /\ heap[j].Status = "failed"
        /\ j \notin DOMAIN jobs
        /\ heap[k].Status = "running"

\* The executor was called and returned a top-level error.
ExecutorError == result # None /\ result.err # NoError

(***************************************************************************)
(* C14: when processJob is through, the job is Failed, with a non-empty    *)
(* error string, exactly when its type is unknown or the executor returned *)
(* a top-level error; otherwise it is Completed with an empty error and    *)
(* the executor's lists, a non-empty failed list included.                 *)
(***************************************************************************)
C14_FailedIffTopLevelError ==
    xpc = "done" =>
        /\ job.Status \in {"completed", "failed"}
        /\ job.Status = "failed" <=>
              (job.Type \notin {"start", "stop"} \/ ExecutorError)
        /\ job.Status = "failed" => job.Error.msg # ""
        /\ job.Status = "completed" =>
              /\ job.Error = NoError
              /\ result # None
              /\ job.Failed = result.res.failed

\* A Completed job with a node in its failed list and no error.
C14_Witness ==
    /\ xpc = "done"
    /\ job.Status = "completed"
    /\ job.Failed # <<>>
    /\ job.Error = NoError

\* C15 as stated: after every run of cleanup the registry holds at most
\* MaxJobCount jobs, whatever their statuses and ages.
C15_AtMostMaxJobCount ==
    [][Cardinality(DOMAIN jobs') <= MaxJobCount]_vars

(***************************************************************************)
(* C15, amended: after every run of cleanup the registry holds at most     *)
(* MaxJobCount jobs or no job in it is Completed or Failed and older than  *)
(* MinJobRetention; cleanup deletes min(excess, eligible) jobs when the    *)
(* registry exceeds MaxJobCount.                                           *)
(***************************************************************************)
C15_AtMostMaxJobCountOrNoneEligible ==
    [][/\ \/ Cardinality(DOMAIN jobs') <= MaxJobCount
          \/ Eligible(jobs', heap', now') = {}
       /\ Cardinality(DOMAIN jobs) > MaxJobCount =>
             Cardinality(DOMAIN jobs') =
                Cardinality(DOMAIN jobs)
                - Min(Cardinality(DOMAIN jobs) - MaxJobCount,
                      Cardinality(Eligible(jobs, heap, now)))]_vars

\* cleanup has brought a registry of more than MaxJobCount jobs down to
\* MaxJobCount, and an eligible job is left in it.
C15_Witness ==
    /\ Cardinality(DOMAIN heap) > MaxJobCount
    /\ Cardinality(DOMAIN jobs) = MaxJobCount
    /\ Eligible(jobs, heap, now) # {}

(***************************************************************************)
(* C16: every job a run of cleanup deletes is Completed or Failed and was  *)
(* created more than MinJobRetention ago; Pending and Running jobs and     *)
(* jobs created an hour ago or less stay, also in a registry of more than  *)
(* MaxJobCount jobs.                                                       *)
(***************************************************************************)
C16_OnlyOldTerminalDeleted ==
    [][\A id \in DOMAIN jobs \ DOMAIN jobs' :
          /\ heap[jobs[id]].Status \in {"completed", "failed"}
          /\ now - heap[jobs[id]].CreatedAt > MinJobRetention]_vars

\* cleanup has run on a registry of more than MaxJobCount jobs and deleted
\* some; a Pending or Running job older than MinJobRetention and a Completed
\* job created an hour ago are still registered, the count still above
\* MaxJobCount.
C16_Witness ==
    /\ DOMAIN jobs # DOMAIN heap
    /\ Cardinality(DOMAIN jobs) > MaxJobCount
    /\ \E i \in DOMAIN jobs :
          /\ heap[i].Status \in {"pending", "running"}
          /\ now - heap[i].CreatedAt > MinJobRetention
    /\ \E k \in DOMAIN jobs :
          heap[k].Status = "completed" /\ now - heap[k].CreatedAt = MinJobRetention

\* What a caller reads from job value j: its scalar fields and the elements
\* of its slices.
ValueOf(arrs, j) ==
    [Type |-> j.Type, Status |-> j.Status, CreatedAt |-> j.CreatedAt, Error |-> j.Error,
     Ignore |-> Deref(arrs, j.Ignore), Started |-> Deref(arrs, j.Started),
     Stopped |-> Deref(arrs, j.Stopped), Skipped |-> Deref(arrs, j.Skipped),
     Failed |-> Deref(arrs, j.Failed)]

(***************************************************************************)
(* C17: a job returned by Manager.Get or Manager.List reads, when it is    *)
(* returned, as the stored job does, and shares nothing with it or with    *)
(* another returned job: a step that changes what a returned job reads     *)
(* (a write to one of its fields or slice elements, an append) changes no  *)
(* stored job and no other returned job, and a step that changes a stored  *)
(* job (SetStatus, SetError, SetResults) changes no returned job.          *)
(***************************************************************************)
C17_ReturnedJobsAreDeepCopies ==
    [][/\ \A c \in DOMAIN copies' \ DOMAIN copies :
             \E id \in DOMAIN jobs :
                ValueOf(arrays', copies'[c]) = ValueOf(arrays, heap[jobs[id]])
       /\ \A c \in DOMAIN copies :
             ValueOf(arrays', copies'[c]) # ValueOf(arrays, copies[c]) =>
                /\ \A id \in DOMAIN heap :
                      ValueOf(arrays', heap'[id]) = ValueOf(arrays, heap[id])
                /\ \A d \in DOMAIN copies \ {c} :
                      ValueOf(arrays', copies'[d]) = ValueOf(arrays, copies[d])
       /\ \A id \in DOMAIN heap :
             ValueOf(arrays', heap'[id]) # ValueOf(arrays, heap[id]) =>
                \A c \in DOMAIN copies :
                   ValueOf(arrays', copies'[c]) = ValueOf(arrays, copies[c])]_vars

\* A job was returned with results in it; the caller has overwritten its
\* fields and the elements of its lists, and the stored job, since
\* Completed, still reads its own.
C17_Witness ==
    \E c \in DOMAIN copies, id \in DOMAIN jobs :
        /\ copies[c].Status = "x"
        /\ Deref(arrays, copies[c].Started) = <<"x">>
        /\ Deref(arrays, copies[c].Failed) = <<"x">>
        /\ heap[jobs[id]].Status = "completed"
        /\ Deref(arrays, heap[jobs[id]].Started) = <<"a">>
        /\ Deref(arrays, heap[jobs[id]].Failed) = <<"b">>

(***************************************************************************)
(* C18: a Submit called once Shutdown has cancelled the manager's context  *)
(* returns the shutting-down error (the handler answers 500 "Failed to     *)
(* submit job") without touching the registry, the queue or the workers,   *)
(* and the job of a request answered without being registered is never     *)
(* registered, enqueued or handed to a worker afterwards.                  *)
(***************************************************************************)
C18_SubmitAfterCancelRejected ==
    [][\A r \in Requests :
          /\ (reqs[r].pc = "checked" /\ ~reqs[r].blocked /\ ManagerDone
              /\ reqs'[r] # reqs[r]) =>
                /\ reqs'[r].pc = "responded"
                /\ reqs'[r].code = 500
                /\ reqs'[r].body = "Failed to submit job"
                /\ r \notin DOMAIN jobs
                /\ UNCHANGED <<jobs, jobQueue, workers>>
          /\ (reqs[r].pc = "responded" /\ r \notin DOMAIN jobs) =>
                /\ reqs'[r] = reqs[r]
                /\ r \notin DOMAIN jobs'
                /\ r \notin Range(jobQueue')
                /\ r \notin workers'.busy]_vars

\* After the cancel a job was built and its Submit refused: it is in no
\* registry, queue or worker, while a job submitted before is registered.
C18_Witness ==
    \E r, q \in Requests :
        /\ ManagerDone
        /\ q < r
        /\ q \in DOMAIN jobs
        /\ reqs[q].code = 200
        /\ reqs[r].pc = "responded"
        /\ reqs[r].body = "Failed to submit job"
        /\ r \in DOMAIN heap
        /\ r \notin DOMAIN jobs
        /\ r \notin Range(jobQueue)
        /\ r \notin workers.busy

(***************************************************************************)
(* C19: the handler of GET /job_status/{id} answers 404 "not_found" when   *)
(* id is not in the registry at that moment (never submitted, deleted by   *)
(* Manager.Delete, evicted by cleanup) and otherwise 200 with the job's    *)
(* current status; an id enters the registry only by the Submit of its own *)
(* request, so no write of a worker brings a deleted job back.             *)
(***************************************************************************)
C19_NotFoundIffUnregistered ==
    [][/\ \A r \in Requests :
             (reqs[r].route = "job_status" /\ reqs[r].pc = "new"
              /\ reqs'[r].pc = "responded") =>
                IF reqs[r].arg \in DOMAIN jobs
                THEN /\ reqs'[r].code = 200
                     /\ reqs'[r].body = heap[jobs[reqs[r].arg]].Status
                     /\ reqs'[r].body \in {"pending", "running", "completed", "failed"}
                ELSE /\ reqs'[r].code = 404
                     /\ reqs'[r].body = "not_found"
       /\ \A id \in DOMAIN jobs' \ DOMAIN jobs :
             /\ id \in Requests
             /\ reqs[id].pc = "submit"
             /\ reqs'[id].pc = "registered"
       /\ (workers' # workers \/ heap' # heap) => DOMAIN jobs' \subseteq DOMAIN jobs]_vars

\* A job was deleted while a worker ran it; the worker has since set it
\* Completed, and a status request for it was answered 404, another one,
\* before the delete, 200 "running".
C19_Witness ==
    \E r, q, id \in Requests :
        /\ now = 0
        /\ id \in DOMAIN heap
        /\ id \notin DOMAIN jobs
        /\ heap[id].Status = "completed"
        /\ reqs[q].route = "job_status" /\ reqs[q].arg = id
        /\ reqs[q].code = 200 /\ reqs[q].body = "running"
        /\ reqs[r].route = "job_status" /\ reqs[r].arg = id
        /\ reqs[r].code = 404 /\ reqs[r].body = "not_found"

\* A step of the call other than the expiry of its timeout.
ExecProgress ==
    \/ \E c \in DOMAIN comp : CompSpawn(c) \/ CompCollect(c) \/ CompSend(c)
    \/ \E t \in DOMAIN task :
          TaskBegin(t) \/ TaskGate(t) \/ TaskPoll(t) \/ TaskDelay(t) \/ TaskAct(t)
    \/ MainCollect
    \/ ExecReturn

C24_NoSendOnClosedQueue ==
    [][\A r \in Requests :
          (reqs[r].pc = "registered" /\ reqs'[r].pc = "responded") =>
             \/ /\ ~QueueClosed
                /\ jobQueue' = Append(jobQueue, r)
                /\ reqs'[r].code = 200
             \/ /\ reqs'[r].body = "Failed to submit job"
                /\ jobQueue' = jobQueue]_vars

(***************************************************************************)
(* C25: the handler of a POST /start or /stop calls Submit only at moments *)
(* when the flag is false; a /block handled after the handler read the     *)
(* flag keeps the request's job away from the manager.                     *)
(***************************************************************************)
C25_NoSubmitWhileBlocked ==
    [][\A r \in Requests :
          (reqs[r].pc = "checked" /\ r \in DOMAIN heap' /\ r \notin DOMAIN heap) =>
             ~isBlocked]_vars

(***************************************************************************)
(* C26: a request whose Submit returned an error (answered 500 "Failed to  *)
(* submit job") has no job in the registry.                                *)
(***************************************************************************)
C26_RejectedJobNotRegistered ==
    \A r \in Requests :
        (reqs[r].pc = "responded" /\ reqs[r].body = "Failed to submit job") =>
           r \notin DOMAIN jobs

(***************************************************************************)
(* C29: at most one auto-unblock goroutine is alive with its context not   *)
(* cancelled, and a goroutine clears the flag only while its own cancel    *)
(* func is the one stored in unblockCancel (it has not been superseded).   *)
(***************************************************************************)
C29_OneOutstandingExpiry ==
    /\ [](Cardinality({t \in DOMAIN timers :
                          timers[t].pc # "done" /\ ~timers[t].cancelled}) <= 1)
    /\ [][\A t \in DOMAIN timers :
             (timers[t].pc = "fired" /\ timers'[t].pc = "done" /\ isBlocked # isBlocked') =>
                unblockCancel = t]_vars

(***************************************************************************)
(* C30: every job in the queue or in a worker's hands, every job that has  *)
(* left Pending and every job whose request was answered 200 with its      *)
(* job_id is in the registry, where Get finds it.                          *)
(***************************************************************************)
C30_RegisteredBeforeQueued ==
    /\ \A id \in Range(jobQueue) \cup workers.busy : id \in DOMAIN jobs
    /\ \A id \in DOMAIN heap : heap[id].Status # "pending" => id \in DOMAIN jobs
    /\ \A r \in Requests :
          (reqs[r].route \in {"start", "stop"} /\ reqs[r].pc = "responded"
           /\ reqs[r].code = 200) =>
             r \in DOMAIN jobs /\ jobs[r] = r /\ r \in DOMAIN heap

\* A request was answered 200 while its job was still in the queue; another
\* job is in a worker's hands, Running.
C30_Witness ==
    \E r, q \in Requests :
        /\ reqs[r].code = 200
        /\ reqs[r].route = "start"
        /\ r \in Range(jobQueue)
        /\ heap[r].Status = "pending"
        /\ q \in workers.busy
        /\ heap[q].Status = "running"

\* Shutdown has returned.
ShutdownReturned == shutdown \in {"returned", "returned on timeout"}

\* What holds of Shutdown whether or not it timed out: the queue is closed
\* before the context is cancelled and both before the wait begins; the
\* done case is taken only when every worker has drained the queue and
\* returned; Shutdown returns only after the cleanup loop has exited.
ShutdownOrder ==
    /\ [][/\ (shutdown = "none" /\ shutdown' # shutdown) =>
                (shutdown' = "closed" /\ ~ManagerDone')
          /\ (shutdown = "closed" /\ shutdown' # shutdown) =>
                (shutdown' = "cancelled" /\ ManagerDone' /\ QueueClosed')
          /\ (shutdown' = "done" /\ shutdown # shutdown') =>
                /\ workers.stopped = DefaultWorkerCount
                /\ workers.busy = {}
                /\ jobQueue = <<>>
          /\ (ShutdownReturned' /\ ~ShutdownReturned) =>
                /\ shutdown \in {"done", "timeout"}
                /\ (shutdown' = "returned") = (shutdown = "done")
                /\ cleanupLoop = "exited"]_vars
    /\ [](shutdown = "returned" =>
             /\ workers.stopped = DefaultWorkerCount
             /\ workers.busy = {}
             /\ jobQueue = <<>>
             /\ cleanupLoop = "exited")

(***************************************************************************)
(* C28 as claimed: Shutdown closes the queue, then cancels the context,    *)
(* and returns only once every worker has finished the jobs left in the    *)
(* queue or the timeout has elapsed; when the workers finished in time it  *)
(* returns only after the cleanup loop has exited, and once the timeout    *)
(* has elapsed it can return at once, waiting for nothing else.            *)
(***************************************************************************)
C28_TimeoutReturnsAtOnce ==
    /\ ShutdownOrder
    /\ [](shutdown = "timeout" => ENABLED ShutdownReturn)

(***************************************************************************)
(* C28 as amended: Shutdown closes the queue, then cancels the context,    *)
(* and returns only once every worker has finished the jobs left in the    *)
(* queue or the timeout has elapsed; in both cases it returns only after   *)
(* the cleanup loop has exited: after the timeout it still waits for       *)
(* cleanupWg, and cannot return while the cleanup loop is running.         *)
(***************************************************************************)
C28_ReturnsAfterCleanupLoop ==
    /\ ShutdownOrder
    /\ [](ShutdownReturned => cleanupLoop = "exited")
    /\ []((shutdown = "timeout" /\ cleanupLoop = "loop") => ~ENABLED ShutdownReturn)

\* Shutdown has returned after its timeout: a job is still in a worker's
\* hands and another in the queue, and the cleanup loop has exited.
C28_Witness ==
    /\ shutdown = "returned on timeout"
    /\ cleanupLoop = "exited"
    /\ workers.busy # {}
    /\ jobQueue # <<>>

(***************************************************************************)
(* C27: a job whose Submit returned nil (its request was answered 200) is  *)
(* taken from the queue by a worker, set Running and brought to Completed  *)
(* or Failed, when workers are scheduled and executor calls return; jobs   *)
(* in the queue when Shutdown closes it are run as well.  A job never      *)
(* ends while it is still in the queue, and none ends without a worker     *)
(* having set it Running.                                                  *)
(***************************************************************************)
C27_AcceptedJobsFinish ==
    /\ \A r \in Requests :
          (reqs[r].code = 200 /\ reqs[r].route \in {"start", "stop"}) ~>
             (/\ r \in DOMAIN heap
              /\ heap[r].Status \in {"completed", "failed"}
              /\ r \notin Range(jobQueue)
              /\ r \notin workers.busy)
    /\ [][\A r \in DOMAIN heap :
             /\ r \in Range(jobQueue) => heap[r].Status = "pending"
             /\ (heap[r].Status = "pending" /\ heap'[r].Status # "pending") =>
                   (heap'[r].Status = "running" /\ r = Head(jobQueue)
                    /\ r \in workers'.busy)
             /\ (heap[r].Status # heap'[r].Status
                 /\ heap'[r].Status \in {"completed", "failed"}) =>
                   (heap[r].Status = "running" /\ r \in workers.busy)]_vars

\* The queue is closed with an accepted job still in it, Pending, while a
\* job accepted before it has been completed.
C27_Witness ==
    \E r, q \in Requests :
        /\ QueueClosed
        /\ reqs[r].code = 200
        /\ r \in Range(jobQueue)
        /\ heap[r].Status = "pending"
        /\ reqs[q].code = 200
        /\ heap[q].Status = "completed"

(***************************************************************************)
(* C21: for a node that waits for health checks, every turn of the gating  *)
(* loop and of waitForHealthy (placeholder parent, HasHealthCheck failing  *)
(* or reporting no health check, a polling error, a status other than      *)
(* healthy, the 60 s timeout, the context done) leaves the goroutine in    *)
(* the gating or moves it to the node's delay, or to the daemon start call *)
(* when it has no delay; none sends a failure.  A node whose delay has    *)
(* passed is at the daemon start call.  Gating always ends: a goroutine    *)
(* that has left it never returns to it, and from some moment on no        *)
(* goroutine of the call is in it.                                         *)
(***************************************************************************)
C21_GatingNeverFails ==
    /\ [][\A t \in DOMAIN task :
             /\ task[t].pc \in {"gate", "poll"} =>
                   /\ task'[t].pc \in {"gate", "poll", AfterGate(NodeOf(t))}
                   /\ task'[t].pc # task[t].pc => batchChan' = batchChan
                   /\ graph[NodeOf(t)].WaitForHealthcheck
             /\ (task[t].pc = "delay" /\ task'[t].pc # "delay") =>
                   \/ task'[t].pc = "act"
                   \/ ctxDone /\ task'[t].pc = "done"
             /\ (task[t].pc = "act" /\ task'[t].pc # "act") =>
                   <<"start", NodeOf(t)>> \in daemonCalls'
             /\ task[t].pc \in {"delay", "act", "done"} =>
                   task'[t].pc \notin {"gate", "poll"}]_vars
    /\ <>[](\A t \in DOMAIN task : task[t].pc \notin {"gate", "poll"})

\* A node was started after its gating polled the health of a parent, with
\* the timeout of the call not expired.
C21_Witness ==
    \E t \in DOMAIN task :
        /\ task[t].pc = "done"
        /\ ~ctxDone
        /\ graph[NodeOf(t)].WaitForHealthcheck
        /\ graph[NodeOf(t)].StartupDelay > 0
        /\ <<"start", NodeOf(t)>> \in daemonCalls
        /\ \E i \in DOMAIN graph[NodeOf(t)].Parents :
              <<"health", graph[NodeOf(t)].Parents[i]>> \in daemonCalls

\* The job of the helper's /start (/stop) request is Completed or Failed.
HelperJobTerminal(type) ==
    \E id \in DOMAIN heap :
        heap[id].Type = type /\ heap[id].Status \in {"completed", "failed"}

\* The helper sends a request in this step.
HelperSends == helper.req = 0 /\ helper'.req # 0

(***************************************************************************)
(* C22: the helper posts /start only after a /ping was answered healthy;   *)
(* every poll it sends is a GET /job_status/{id} for the job its last      *)
(* submission created; it stops polling the start job only when that job   *)
(* is Completed or Failed, and then waits for a signal; it posts /stop     *)
(* only after a signal and never before the start job is terminal; and it  *)
(* returns without error only once the stop job is terminal.  (A helper    *)
(* terminated by a signal is left aside.)                                  *)
(***************************************************************************)
C22_HelperLifecycle ==
    [][/\ (HelperSends /\ reqs'[helper'.req].route = "start") =>
             \E q \in Requests :
                reqs[q].route = "ping" /\ reqs[q].code = 200 /\ reqs[q].body = "healthy"
       /\ (HelperSends /\ helper.pc \in {"waitStart", "waitStop"}) =>
             /\ reqs'[helper'.req].route = "job_status"
             /\ reqs'[helper'.req].arg \in DOMAIN jobs
             /\ heap[jobs[reqs'[helper'.req].arg]].Type =
                   (IF helper.pc = "waitStart" THEN "start" ELSE "stop")
       /\ (helper.pc = "waitStart" /\ helper'.pc # "waitStart" /\ helper'.err # "signal") =>
             (helper'.pc = "running" /\ HelperJobTerminal("start"))
       /\ (HelperSends /\ reqs'[helper'.req].route = "stop") =>
             (helper.pc = "stop" /\ HelperJobTerminal("start"))
       /\ (helper.pc # "stop" /\ helper'.pc = "stop") =>
             (helper.pc = "running" /\ helper.sigChan > 0)
       /\ (helper.pc # "exited" /\ helper'.pc = "exited" /\ helper'.err = "") =>
             (HelperJobTerminal("start") /\ HelperJobTerminal("stop"))]_vars

(***************************************************************************)
(* C23: when the helper's /start is answered 503 the helper skips the      *)
(* start and goes on to wait for the shutdown signal, and when its /stop   *)
(* is answered 503 it returns without an error; a 503 never ends the       *)
(* helper with an error.                                                   *)
(***************************************************************************)
C23_BlockedSubmissionSkipped ==
    [][(helper.req # 0 /\ helper'.req = 0 /\ helper.pc \in {"start", "stop"}
        /\ reqs[helper.req].pc = "responded" /\ reqs[helper.req].code = 503) =>
          IF helper.pc = "start"
          THEN helper'.pc = "running"
          ELSE helper'.pc = "exited" /\ helper'.err = ""]_vars

\* Node n is reached along two different chains from one node.
SharedDescendant(g, n) ==
    \E ch1, ch2 \in Chains(g, DOMAIN g) :
        /\ ch1 # ch2
        /\ ch1[1] = ch2[1]
        /\ ch1[Len(ch1)] = n
        /\ ch2[Len(ch2)] = n

(***************************************************************************)
(* C38: HasCycles returns true exactly when the parent -> child relation   *)
(* of the graph has a directed cycle, then with a witness that is not      *)
(* empty, and returns false with a nil witness otherwise, for every order  *)
(* in which the node map is ranged over; a graph with shared descendants   *)
(* and no cycle is never reported cyclic.                                  *)
(***************************************************************************)
C38_HasCyclesExact ==
    analysis.op = "HasCycles" =>
        /\ analysis.res.found <=> HasDirectedCycle(G)
        /\ analysis.res.found => Len(analysis.res.cycle) > 0
        /\ ~analysis.res.found => analysis.res.cycle = <<>>

\* HasCycles has answered false on a graph where a node is reached twice,
\* and (in another run) true on a graph with a cycle.
C38_Witness ==
    /\ analysis.op = "HasCycles"
    /\ ~analysis.res.found
    /\ \E n \in DOMAIN G : SharedDescendant(G, n)

(***************************************************************************)
(* C39: the witness HasCycles returns is the cycle itself: a walk along    *)
(* parent -> child edges that starts and ends at the same node, the one    *)
(* the back edge points to, so that it holds no node outside the cycle,    *)
(* whichever node the traversal started from.                              *)
(***************************************************************************)
C39_WitnessIsCycle ==
    (analysis.op = "HasCycles" /\ analysis.res.found) =>
        LET w == analysis.res.cycle
        IN  /\ Len(w) >= 2
            /\ w[1] = w[Len(w)]
            /\ \A j \in 1..(Len(w) - 1) : w[j] \in Range(G[w[j + 1]].Parents)

\* The positions that bound the fields of parameter p: before its first
\* character, its commas, and after its last character.
Cuts(p) == {0, Len(p) + 1} \cup {i \in 1..Len(p) : p[i] = ","}

\* The name in the field of p between the cuts lo and hi: what lies from the
\* first to the last character that is not white space, if any.
FieldName(p, lo, hi) ==
    LET ink == {k \in (lo + 1)..(hi - 1) : p[k] # " "}
    IN  IF ink = {} THEN <<>>
        ELSE SubSeq(p, CHOOSE k \in ink : \A x \in ink : k <= x,
                       CHOOSE k \in ink : \A x \in ink : x <= k)

RECURSIVE NamesFrom(_, _)
\* The names of the fields of p that begin after the cut lo, in order.
NamesFrom(p, lo) ==
    IF lo > Len(p) THEN <<>>
    ELSE LET hi == CHOOSE h \in Cuts(p) : h > lo /\ \A c \in Cuts(p) : c > lo => h <= c
         IN  (IF FieldName(p, lo, hi) = <<>> THEN <<>> ELSE <<FieldName(p, lo, hi)>>)
             \o NamesFrom(p, hi)

RECURSIVE QueryNames(_)
\* The names given by the ignore parameters q of a request.
QueryNames(q) ==
    IF q = <<>> THEN <<>>
    ELSE QueryNames(SubSeq(q, 1, Len(q) - 1)) \o NamesFrom(q[Len(q)], 0)

(***************************************************************************)
(* C40, as claimed: the Job of every POST /start and POST /stop request    *)
(* has as ignore list exactly the names of the request's ignore            *)
(* parameters (each split on commas, trimmed, empties dropped).            *)
(***************************************************************************)
C40_IgnoreFromQuery ==
    \A r \in DOMAIN heap : Deref(arrays, heap[r].Ignore) = QueryNames(reqs[r].query)

(***************************************************************************)
(* C40, amended: the Job of a POST /stop request has as ignore list        *)
(* exactly the names of the request's ignore parameters, in their order;   *)
(* the Job of a POST /start request has an empty ignore list whatever the  *)
(* parameters are.                                                         *)
(***************************************************************************)
C40_StopIgnoreFromQuery ==
    \A r \in DOMAIN heap :
        Deref(arrays, heap[r].Ignore) =
            (IF heap[r].Type = "stop" THEN QueryNames(reqs[r].query) ELSE <<>>)

\* A stop job was created from two parameters of which one has a comma and
\* white space, and has two names to ignore.
C40_Witness ==
    \E r \in DOMAIN heap :
        /\ heap[r].Type = "stop"
        /\ Len(reqs[r].query) = 2
        /\ \E i \in 1..2 : {",", " "} \subseteq Range(reqs[r].query[i])
        /\ Len(Deref(arrays, heap[r].Ignore)) = 2

(***************************************************************************)
(* C37: a node of a start job whose container the daemon reported running, *)
(* and a node of a stop job whose container it reported not running, ends  *)
(* at once with success: its goroutine never stands at the health gating,  *)
(* the delay or the daemon call, no start (stop) call is issued for it,    *)
(* and the returned result has it in started (stopped) and not in failed.  *)
(***************************************************************************)
C37_NoOpWhenAlreadyThere ==
    \A t \in DOMAIN task :
        Reported(Verb = "start", NodeOf(t)) \in daemonCalls =>
            /\ task[t].pc = "done"
            /\ <<Verb, NodeOf(t)>> \notin daemonCalls
            /\ Returned =>
                  /\ NodeOf(t) \in Range(result.res.acted)
                  /\ NodeOf(t) \notin Range(result.res.failed)

\* A call has returned with one node that was already in the wanted state
\* and another that the daemon was asked to start or stop.
C37_Witness ==
    /\ Returned
    /\ \E t, u \in DOMAIN task :
          /\ Reported(Verb = "start", NodeOf(t)) \in daemonCalls
          /\ NodeOf(t) \in Range(result.res.acted)
          /\ <<Verb, NodeOf(u)>> \in daemonCalls
          /\ NodeOf(u) \in Range(result.res.acted)

\* No element occurs twice in sequence q.
NoDuplicates(q) == Cardinality(Range(q)) = Len(q)

TaskStep(t) ==
    TaskBegin(t) \/ TaskGate(t) \/ TaskPoll(t) \/ TaskDelay(t) \/ TaskAct(t)

\* The goroutine of batch entry t has been spawned and has not yet sent
\* its batchResult.
TaskRunning(t) == task[t].pc \notin {"idle", "done"}

(***************************************************************************)
(* C35: during a call no goroutine waits for another component.  A         *)
(* component goroutine that is about to spawn a batch or to send its       *)
(* result can do so whatever the other components are doing; one that      *)
(* waits for a batchResult waits for a running node goroutine of its own   *)
(* current batch; and a running node goroutine can always take its next    *)
(* step.                                                                   *)
(***************************************************************************)
C35_ComponentsIndependent ==
    xpc = "collect" =>
        /\ \A c \in DOMAIN comp :
              /\ comp[c].phase = "spawn" => ENABLED (CompSpawn(c) \/ CompSend(c))
              /\ comp[c].phase = "collect" =>
                    \/ ENABLED CompCollect(c)
                    \/ \E t \in DOMAIN task :
                          t[1] = c /\ t[2] = comp[c].batchIdx /\ TaskRunning(t)
        /\ \A t \in DOMAIN task : TaskRunning(t) => ENABLED TaskStep(t)

\* A node of the second batch of one component is running while a node of
\* the first batch of another component has not finished.
C35_Witness ==
    /\ xpc = "collect"
    /\ \E t, u \in DOMAIN task :
          /\ t[1] # u[1]
          /\ t[2] = 2
          /\ TaskRunning(t)
          /\ u[2] = 1
          /\ TaskRunning(u)

C31_CleanupDeletesOldestEligible ==
    [][/\ DOMAIN jobs \ DOMAIN jobs' \subseteq Eligible(jobs, heap, now)
       /\ DOMAIN jobs' \subseteq DOMAIN jobs
       /\ Cardinality(DOMAIN jobs) <= MaxJobCount =>
             DOMAIN jobs \ DOMAIN jobs' = Eligible(jobs, heap, now)
       /\ Cardinality(DOMAIN jobs) > MaxJobCount =>
             /\ Cardinality(DOMAIN jobs \ DOMAIN jobs') =
                   Min(Cardinality(DOMAIN jobs) - MaxJobCount,
                       Cardinality(Eligible(jobs, heap, now)))
             /\ \A d \in DOMAIN jobs \ DOMAIN jobs' :
                   \A k \in Eligible(jobs, heap, now) \cap DOMAIN jobs' :
                      AgeAt(heap, jobs, k, now) <= AgeAt(heap, jobs, d, now)]_vars

\* cleanup has run on a registry of more than MaxJobCount jobs and deleted
\* one eligible job while a younger eligible job is kept.
C31_Witness ==
    /\ Cardinality(DOMAIN heap) > MaxJobCount
    /\ Cardinality(DOMAIN heap \ DOMAIN jobs) = 1
    /\ \E d \in DOMAIN heap \ DOMAIN jobs :
          \E k \in Eligible(jobs, heap, now) :
             heap[k].CreatedAt > heap[d].CreatedAt

\* Time x is not after time y, for times that are set.
NotAfter(x, y) == x # <<>> /\ y # <<>> /\ x[1] <= y[1]

(***************************************************************************)
(* C32: a job's StartedAt is set, to the time of the call, by the first    *)
(* write of status Running, and its EndedAt by the first write of          *)
(* Completed or Failed (SetStatus or SetError); a time stamp that is set   *)
(* never changes again, whatever is written later; a Running job has       *)
(* StartedAt set and a Completed or Failed job EndedAt; and a job the      *)
(* manager has processed has CreatedAt <= StartedAt <= EndedAt.            *)
(***************************************************************************)
C32_TimeStampsLatch ==
    /\ [](\A id \in DOMAIN heap :
            /\ heap[id].Status = "running" => heap[id].StartedAt # <<>>
            /\ heap[id].Status \in {"completed", "failed"} => heap[id].EndedAt # <<>>
            /\ (id \in DOMAIN jobs /\ heap[id].StartedAt # <<>>) =>
                  NotAfter(heap[id].CreatedAt, heap[id].StartedAt)
            /\ (id \in DOMAIN jobs /\ heap[id].EndedAt # <<>>) =>
                  NotAfter(heap[id].StartedAt, heap[id].EndedAt))
    /\ [][\A id \in DOMAIN heap :
            /\ heap[id].StartedAt # <<>> => heap'[id].StartedAt = heap[id].StartedAt
            /\ heap[id].EndedAt # <<>> => heap'[id].EndedAt = heap[id].EndedAt
            /\ heap'[id].StartedAt # heap[id].StartedAt =>
                  heap'[id].Status = "running" /\ heap'[id].StartedAt = <<now>>
            /\ heap'[id].EndedAt # heap[id].EndedAt =>
                  /\ heap'[id].Status \in {"completed", "failed"}
                  /\ heap'[id].EndedAt = <<now>>]_vars

\* A job was set Completed, later Running and still later Failed and keeps
\* its first time stamps, and the manager's job has ended after it started
\* after it was created.
C32_Witness ==
    /\ heap[1].Status = "failed"
    /\ heap[1].EndedAt # <<>>
    /\ heap[1].StartedAt # <<>>
    /\ heap[1].EndedAt[1] < heap[1].StartedAt[1]
    /\ heap[1].StartedAt[1] < now
    /\ heap[2].Status = "completed"
    /\ heap[2].CreatedAt[1] < heap[2].StartedAt[1]
    /\ heap[2].StartedAt[1] < heap[2].EndedAt[1]


\* The result buckets that job value v reads.
BucketsOf(v) == <<v.Started, v.Stopped, v.Skipped, v.Failed>>

\* Job value v reads as the executor's result res, stored by SetResults for a
\* job of v's type.
HoldsResult(v, res) ==
    BucketsOf(v) = IF v.Type = "stop"
                   THEN <<<<>>, res.acted, res.skipped, res.failed>>
                   ELSE <<res.acted, <<>>, res.skipped, res.failed>>

\* What an observer may read from job value v: Completed comes with an
\* executor's result, Failed with empty buckets.
ObservedWell(v) ==
    /\ v.Status = "completed" => \E res \in ResultLists : HoldsResult(v, res)
    /\ v.Status = "failed" => BucketsOf(v) = <<<<>>, <<>>, <<>>, <<>>>>

(***************************************************************************)
(* C33: a job that reads Completed reads the executor's final result in    *)
(* its started, stopped, skipped and failed buckets, because the results   *)
(* are written before the Completed transition and never afterwards, and a *)
(* job that reads Failed reads empty buckets.  This holds of every stored  *)
(* job at every moment, and so of every job Manager.Get or Manager.List    *)
(* returns, when it returns it; and no step changes the buckets of a       *)
(* stored job that is Completed or Failed.                                 *)
(***************************************************************************)
C33_CompletedHoldsFinalResult ==
    /\ [](\A id \in DOMAIN heap : ObservedWell(ValueOf(arrays, heap[id])))
    /\ [][/\ \A c \in (DOMAIN copies') \ (DOMAIN copies) :
                 /\ ObservedWell(ValueOf(arrays', copies'[c]))
                 /\ \E id \in DOMAIN heap :
                       ValueOf(arrays', copies'[c]) = ValueOf(arrays, heap[id])
           /\ \A id \in DOMAIN heap :
                 heap[id].Status \in {"completed", "failed"}
                 => /\ id \in DOMAIN heap'
                    /\ heap'[id].Status = heap[id].Status
                    /\ BucketsOf(ValueOf(arrays', heap'[id]))
                         = BucketsOf(ValueOf(arrays, heap[id]))]_vars

\* A worker's job was returned Completed with a result of two buckets, after
\* it was returned Running with the result already stored.
C33_Witness ==
    \E c, d \in DOMAIN copies :
        /\ copies[c].Type = "start" /\ copies[c].Status = "completed"
        /\ Deref(arrays, copies[c].Started) # <<>>
        /\ Deref(arrays, copies[c].Failed) # <<>>
        /\ copies[d].Type = "start" /\ copies[d].Status = "running"
        /\ Deref(arrays, copies[d].Started) # <<>>

==============================================================================
